---- MODULE Spec2Model ----
(***************************************************************************)
(* Observation geometry of Starlink_G4-26: rot.py, cockpitview.py and the  *)
(* geometry functions of relative.py.                                      *)
(*                                                                         *)
(* Arithmetic is exact.  A real number is a reduced fraction <<n, d>> with *)
(* d > 0 (and <<1, 0>> for +infinity).  A square root, which is not a      *)
(* fraction in general, is a "surd" [ssq |-> q]: the number whose signed   *)
(* square sgn(x) * x^2 is the fraction q.  x |-> sgn(x) * x^2 is strictly  *)
(* increasing, so surds are ordered by their signed squares and multiply   *)
(* and divide through them.  An angle is kept as the argument of the       *)
(* inverse function that produced it: [acos |-> c] is the angle in         *)
(* [0, 180] degrees with cosine c, [asin |-> s] the angle in [-90, 90]     *)
(* with sine s (c, s surds).  Angles given as inputs are                   *)
(* q * 90 degrees + p * Theta0, Theta0 = atan(3/4), whose cosine and sine  *)
(* are fractions.                                                          *)
(***************************************************************************)
EXTENDS Integers, Sequences, FiniteSets, TLC

\* ------------------------------------------------------------ bounds
\* Longest target list handed to calculate_apparent_length.
MaxTargets == 3

\* ------------------------------------------------------------ numbers
Abs(x) == IF x < 0 THEN -x ELSE x

Sgn(x) == IF x < 0 THEN -1 ELSE IF x > 0 THEN 1 ELSE 0

RECURSIVE GCD(_, _)
GCD(a, b) == IF b = 0 THEN a ELSE GCD(b, a % b)

\* The fraction n / d (d # 0) in lowest terms with a positive denominator.
Norm(n, d) ==
    LET g == GCD(Abs(n), Abs(d))
        s == IF d < 0 THEN -1 ELSE 1
    IN  <<(s * n) \div g, (s * d) \div g>>

RInt(k) == <<k, 1>>

Zero == <<0, 1>>

One == <<1, 1>>

\* float('inf')
Inf == <<1, 0>>

\* Sums, products and comparisons cancel common factors before they
\* multiply, which keeps every intermediate value small.
RAdd(a, b) ==
    LET g == GCD(a[2], b[2])
    IN  Norm(a[1] * (b[2] \div g) + b[1] * (a[2] \div g), (a[2] \div g) * b[2])

RNeg(a) == <<-a[1], a[2]>>

RSub(a, b) == RAdd(a, RNeg(b))

RMul(a, b) ==
    LET g1 == GCD(Abs(a[1]), b[2])
        g2 == GCD(Abs(b[1]), a[2])
    IN  Norm((a[1] \div g1) * (b[1] \div g2), (a[2] \div g2) * (b[2] \div g1))

\* 1 / b for b # 0
RInv(b) == <<Sgn(b[1]) * b[2], Abs(b[1])>>

\* a / b for b # 0
RDiv(a, b) == RMul(a, RInv(b))

\* a < b; b may be +infinity
RLt(a, b) ==
    IF b[2] = 0 THEN a[2] # 0
    ELSE LET g == GCD(a[2], b[2])
         IN  a[1] * (b[2] \div g) < b[1] * (a[2] \div g)

RSgn(a) == Sgn(a[1])

RAbs(a) == <<Abs(a[1]), a[2]>>

\* ------------------------------------------------------------ surds
\* sqrt(q), q >= 0
Sqrt(q) == [ssq |-> q]

\* the fraction r as a surd
SRat(r) == [ssq |-> RMul(RInt(RSgn(r)), RMul(r, r))]

SMul(x, y) == [ssq |-> RMul(x.ssq, y.ssq)]

\* x / y for y # 0
SDiv(x, y) == [ssq |-> RDiv(x.ssq, y.ssq)]

SLt(x, y) == RLt(x.ssq, y.ssq)

SIsZero(x) == x.ssq[1] = 0

\* Python's max(a, b) and min(a, b) on surds: the first argument unless the
\* second is strictly larger (smaller).
SMax(a, b) == IF SLt(a, b) THEN b ELSE a

SMin(a, b) == IF SLt(b, a) THEN b ELSE a

\* abs(x - y) of two non-negative surds, kept as the difference
\* sqrt(hi) - sqrt(lo) it is: non-negative exactly when lo <= hi.
SDiff(x, y) == [hi |-> x.ssq, lo |-> y.ssq]

\* SAbsDiff without the abs(): x - y as it comes
SAbsDiff_NoAbs(x, y) == SDiff(x, y)

SAbsDiff(x, y) == IF SLt(x, y) THEN SDiff(y, x) ELSE SDiff(x, y)

\* ------------------------------------------------------------ angles
\* math.acos(c) * (180 / math.pi), c a surd in [-1, 1]
AcosDeg(c) == [acos |-> c]

\* a < b for two such angles: the arccosine is strictly decreasing
AngleLt(a, b) == SLt(b.acos, a.acos)

\* max(a, b) of two angles
AngleMax(a, b) == IF AngleLt(a, b) THEN b ELSE a

\* the int 0 that both maxima start from, as an angle of this kind
Deg0 == AcosDeg(SRat(One))

Deg90 == AcosDeg(SRat(Zero))

Deg180 == AcosDeg(SRat(RInt(-1)))

\* An input angle q * 90 deg + p * Theta0 (p in -1 .. 1).
Ang(q, p) == [q |-> q, p |-> p]

\* np.cos and np.sin of an input angle
CosSinBase(p) ==
    IF p = 0 THEN <<One, Zero>>
    ELSE IF p = 1 THEN <<(<<4, 5>>), (<<3, 5>>)>>
    ELSE <<(<<4, 5>>), (<<-3, 5>>)>>

Cos(a) ==
    LET b == CosSinBase(a.p)
        k == a.q % 4
    IN  IF k = 0 THEN b[1]
        ELSE IF k = 1 THEN RNeg(b[2])
        ELSE IF k = 2 THEN RNeg(b[1])
        ELSE b[2]

Sin(a) ==
    LET b == CosSinBase(a.p)
        k == a.q % 4
    IN  IF k = 0 THEN b[2]
        ELSE IF k = 1 THEN b[1]
        ELSE IF k = 2 THEN RNeg(b[2])
        ELSE RNeg(b[1])

\* ------------------------------------------------------------ vectors
\* a list of three ints as read from the data files
Vec(p) == <<RInt(p[1]), RInt(p[2]), RInt(p[3])>>

VSub(a, b) == <<RSub(a[1], b[1]), RSub(a[2], b[2]), RSub(a[3], b[3])>>

\* relative.py dot_product
dot_product(a, b) ==
    RAdd(RAdd(RMul(a[1], b[1]), RMul(a[2], b[2])), RMul(a[3], b[3]))

\* relative.py magnitude
magnitude(v) == Sqrt(dot_product(v, v))

\* relative.py distance
distance(point1, point2) ==
    LET d == VSub(point2, point1) IN Sqrt(dot_product(d, d))

\* ecef2enu with the sign of the first term of north lost
ecef2enu_SignSlip(ecef, lat, lon) ==
    LET u == ecef[1]
        v == ecef[2]
        w == ecef[3]
        temp  == RAdd(RMul(Cos(lon), u), RMul(Sin(lon), v))
        east  == RAdd(RMul(RNeg(Sin(lon)), u), RMul(Cos(lon), v))
        up    == RAdd(RMul(Cos(lat), temp), RMul(Sin(lat), w))
        north == RAdd(RMul(Sin(lat), temp), RMul(Cos(lat), w))
    IN  <<east, north, up>>

\* ecef2enu with east = v: the longitude's rotation left out of east
ecef2enu_EastUnrotated(ecef, lat, lon) ==
    LET u == ecef[1]
        v == ecef[2]
        w == ecef[3]
        temp  == RAdd(RMul(Cos(lon), u), RMul(Sin(lon), v))
        east  == v
        up    == RAdd(RMul(Cos(lat), temp), RMul(Sin(lat), w))
        north == RAdd(RMul(RNeg(Sin(lat)), temp), RMul(Cos(lat), w))
    IN  <<east, north, up>>

\* cockpitview.py ecef2enu: (east, north, up)
ecef2enu(ecef, lat, lon) ==
    LET u == ecef[1]
        v == ecef[2]
        w == ecef[3]
        temp  == RAdd(RMul(Cos(lon), u), RMul(Sin(lon), v))
        east  == RAdd(RMul(RNeg(Sin(lon)), u), RMul(Cos(lon), v))
        up    == RAdd(RMul(Cos(lat), temp), RMul(Sin(lat), w))
        north == RAdd(RMul(RNeg(Sin(lat)), temp), RMul(Cos(lat), w))
    IN  <<east, north, up>>

\* ------------------------------------------------------------ state
\* pc      the place the call under way has reached
\* args    the arguments of the call under way, never assigned after Init
\* result  the value returned (<<>> while the call runs)
\* raised  the exception that ended the call ("" for none)
\* The others are the locals of calculate_apparent_length, under their names
\* in relative.py, and locals, the locals of the one-step functions.
VARIABLES pc, args, result, raised, locals, i, j, idx,
          max_length_degrees_ecef, max_length_degrees_enu,
          furthest_satellites, closest_distance

vars == <<pc, args, result, raised, locals, i, j, idx,
          max_length_degrees_ecef, max_length_degrees_enu,
          furthest_satellites, closest_distance>>

\* Python's None, and a value that is not None
None == <<>>

Some(x) == <<x>>

\* -------------------------------------- calculate_apparent_length inputs
\* Target positions (km): the origin, three points at distance 2 from it on
\* the axes (pairwise equidistant, pairwise at right angles from the origin)
\* and the midpoint of two of them.
Positions ==
    {<<0, 0, 0>>, <<2, 0, 0>>, <<0, 2, 0>>, <<0, 0, 2>>, <<1, 1, 0>>}

Observers == {<<0, 0, 0>>, <<1, 0, 1>>}

\* latitude 0 and Theta0; longitude 90 deg and Theta0 - 90 deg
Lats == {Ang(0, 0), Ang(0, 1)}

Lons == {Ang(1, 0), Ang(-1, 1)}

\* satellite_positions as main builds it: one {"filename", "position"}
\* record per satellite file, in file order
SatList(f) ==
    [k \in DOMAIN f |-> [filename |-> k, position |-> f[k]]]

TargetLists ==
    UNION {{SatList(f) : f \in [1 .. n -> Positions]} : n \in 0 .. MaxTargets}

\* -------------------------------------- calculate_apparent_length
satellite_positions == args.satellite_positions

r_ac_ecef == args.r_ac_ecef

NumSats == Len(satellite_positions)

\* satellite_positions[k]["position"], k counted from 0 as in the source
Pos(k) == Vec(satellite_positions[k + 1].position)

\* whether the nested loops of lines 296-297 have a pair after (a, b)
HasNextPair(a, b) == b + 1 < NumSats \/ a + 2 < NumSats

NextPair(a, b) == IF b + 1 < NumSats THEN <<a, b + 1>> ELSE <<a + 1, a + 2>>

\* UpdateFurthest with >= for >: a later pair at the same distance replaces
\* the one held
UpdateFurthest_Geq(f, a, b, dist) ==
    IF ~SLt(dist, f.distance)
    THEN [f EXCEPT !.distance = dist, !.sat1 = Some(a), !.sat2 = Some(b),
                   !.midpoint = Some(
                       <<RDiv(RAdd(Pos(a)[1], Pos(b)[1]), RInt(2)),
                         RDiv(RAdd(Pos(a)[2], Pos(b)[2]), RInt(2)),
                         RDiv(RAdd(Pos(a)[3], Pos(b)[3]), RInt(2))>>)]
    ELSE f

\* UpdateFurthest recording the pair the other way round
UpdateFurthest_PairSwapped(f, a, b, dist) ==
    IF SLt(f.distance, dist)
    THEN [f EXCEPT !.distance = dist, !.sat1 = Some(b), !.sat2 = Some(a),
                   !.midpoint = Some(
                       <<RDiv(RAdd(Pos(a)[1], Pos(b)[1]), RInt(2)),
                         RDiv(RAdd(Pos(a)[2], Pos(b)[2]), RInt(2)),
                         RDiv(RAdd(Pos(a)[3], Pos(b)[3]), RInt(2))>>)]
    ELSE f

\* lines 301-305: the furthest pair after pair (a, b) at distance dist
UpdateFurthest(f, a, b, dist) ==
    IF SLt(f.distance, dist)
    THEN [f EXCEPT !.distance = dist, !.sat1 = Some(a), !.sat2 = Some(b),
                   !.midpoint = Some(
                       <<RDiv(RAdd(Pos(a)[1], Pos(b)[1]), RInt(2)),
                         RDiv(RAdd(Pos(a)[2], Pos(b)[2]), RInt(2)),
                         RDiv(RAdd(Pos(a)[3], Pos(b)[3]), RInt(2))>>)]
    ELSE f

\* Clamp left out: the quotient goes to the arccosine as computed
Clamp_Off(c) == c

\* lines 325 and 332: max(min(cos_theta, 1), -1)
Clamp(c) == SMax(SMin(c, SRat(One)), SRat(RInt(-1)))

\* UpdateMaxLength without the max(): the latest pair's angle is kept
UpdateMaxLength_Last(cur, vec_a, vec_b) ==
    LET dot_prod == dot_product(vec_a, vec_b)
        magnitude_a == magnitude(vec_a)
        magnitude_b == magnitude(vec_b)
    IN  IF ~SIsZero(SMul(magnitude_a, magnitude_b))
        THEN AcosDeg(Clamp(SDiv(SRat(dot_prod), SMul(magnitude_a, magnitude_b))))
        ELSE cur

\* lines 314-328 (and 318-335 on the ENU vectors): the running maximum after
\* the pair whose observer-to-target vectors are vec_a and vec_b
UpdateMaxLength(cur, vec_a, vec_b) ==
    LET dot_prod == dot_product(vec_a, vec_b)
        magnitude_a == magnitude(vec_a)
        magnitude_b == magnitude(vec_b)
    IN  IF ~SIsZero(SMul(magnitude_a, magnitude_b))
        THEN LET cos_theta == SDiv(SRat(dot_prod), SMul(magnitude_a, magnitude_b))
             IN  AngleMax(cur, AcosDeg(Clamp(cos_theta)))
        ELSE cur

\* AL_Begin reversing the caller's list in place before the loops
AL_Begin_ReversesList ==
    /\ pc = "calculate_apparent_length"
    /\ args' = [args EXCEPT !.satellite_positions =
                    [k \in 1 .. NumSats |-> satellite_positions[NumSats + 1 - k]]]
    /\ max_length_degrees_ecef' = Deg0
    /\ max_length_degrees_enu' = Deg0
    /\ furthest_satellites' =
           [sat1 |-> None, sat2 |-> None, distance |-> Sqrt(Zero),
            midpoint |-> None, midpoint_sat |-> 0]
    /\ closest_distance' = Sqrt(Inf)
    /\ i' = 0
    /\ j' = 1
    /\ idx' = 0
    /\ pc' = IF NumSats >= 2 THEN "scan" ELSE IF NumSats = 1 THEN "mid" ELSE "ret"
    /\ UNCHANGED <<result, raised, locals>>

\* lines 291-296: the locals are set and the loops entered
AL_Begin ==
    /\ pc = "calculate_apparent_length"
    /\ max_length_degrees_ecef' = Deg0
    /\ max_length_degrees_enu' = Deg0
    /\ furthest_satellites' =
           [sat1 |-> None, sat2 |-> None, distance |-> Sqrt(Zero),
            midpoint |-> None, midpoint_sat |-> 0]
    /\ closest_distance' = Sqrt(Inf)
    /\ i' = 0
    /\ j' = 1
    /\ idx' = 0
    /\ pc' = IF NumSats >= 2 THEN "scan" ELSE IF NumSats = 1 THEN "mid" ELSE "ret"
    /\ UNCHANGED <<args, result, raised, locals>>

\* lines 297-335: one pass of the inner loop body, for the pair (i, j)
AL_ScanPair ==
    /\ pc = "scan"
    /\ LET dist == distance(Pos(i), Pos(j))
           vec_a_ecef == VSub(Pos(i), Vec(r_ac_ecef))
           vec_b_ecef == VSub(Pos(j), Vec(r_ac_ecef))
           vec_a_enu == ecef2enu(vec_a_ecef, args.lat, args.lon)
           vec_b_enu == ecef2enu(vec_b_ecef, args.lat, args.lon)
       IN  /\ furthest_satellites' = UpdateFurthest(furthest_satellites, i, j, dist)
           /\ max_length_degrees_ecef' =
                  UpdateMaxLength(max_length_degrees_ecef, vec_a_ecef, vec_b_ecef)
           /\ max_length_degrees_enu' =
                  UpdateMaxLength(max_length_degrees_enu, vec_a_enu, vec_b_enu)
    /\ IF HasNextPair(i, j)
       THEN /\ i' = NextPair(i, j)[1]
            /\ j' = NextPair(i, j)[2]
            /\ pc' = "scan"
       ELSE /\ UNCHANGED <<i, j>>
            /\ pc' = "mid"
    /\ UNCHANGED <<args, result, raised, locals, idx, closest_distance>>

\* UpdateClosest with <= for <: a later satellite at the same distance wins
UpdateClosest_Leq(f, closest, k) ==
    LET dist == distance(Pos(k), f.midpoint[1])
    IN  IF ~SLt(closest, dist)
        THEN <<dist, [f EXCEPT !.midpoint_sat = k]>>
        ELSE <<closest, f>>

\* lines 340-343: closest_distance and furthest_satellites after satellite k
UpdateClosest(f, closest, k) ==
    LET dist == distance(Pos(k), f.midpoint[1])
    IN  IF SLt(dist, closest)
        THEN <<dist, [f EXCEPT !.midpoint_sat = k]>>
        ELSE <<closest, f>>

\* lines 339-343: one pass of the midpoint loop, for satellite idx
AL_MidStep ==
    /\ pc = "mid"
    /\ furthest_satellites.midpoint # None
    /\ closest_distance' =
           UpdateClosest(furthest_satellites, closest_distance, idx)[1]
    /\ furthest_satellites' =
           UpdateClosest(furthest_satellites, closest_distance, idx)[2]
    /\ idx' = idx + 1
    /\ pc' = IF idx + 1 < NumSats THEN "mid" ELSE "ret"
    /\ UNCHANGED <<args, result, raised, locals, i, j,
                   max_length_degrees_ecef, max_length_degrees_enu>>

\* line 340 with furthest_satellites["midpoint"] still None: distance()
\* subscripts None at line 189 and the call ends in a TypeError
AL_MidRaise ==
    /\ pc = "mid"
    /\ furthest_satellites.midpoint = None
    /\ raised' = "TypeError"
    /\ pc' = "raised"
    /\ UNCHANGED <<args, result, locals, i, j, idx, max_length_degrees_ecef,
                   max_length_degrees_enu, furthest_satellites, closest_distance>>

\* lines 346-358: a furthest pair was found
AL_Return ==
    /\ pc = "ret"
    /\ furthest_satellites.sat1 # None /\ furthest_satellites.sat2 # None
    /\ LET sat1 == furthest_satellites.sat1[1]
           sat2 == furthest_satellites.sat2[1]
           mid  == furthest_satellites.midpoint_sat
           distance_aircraft_to_sat1 == distance(Pos(sat1), Vec(r_ac_ecef))
           distance_aircraft_to_sat2 == distance(Pos(sat2), Vec(r_ac_ecef))
           distanceDiff_kms ==
               SAbsDiff(distance_aircraft_to_sat1, distance_aircraft_to_sat2)
           distance_sat1_to_mid == distance(Pos(sat1), Pos(mid))
           distance_sat2_to_mid == distance(Pos(sat2), Pos(mid))
       IN  result' = <<Some(max_length_degrees_ecef), Some(max_length_degrees_enu),
                       Some(distanceDiff_kms), Some(distance_sat1_to_mid),
                       Some(distance_sat2_to_mid), Some(furthest_satellites)>>
    /\ pc' = "done"
    /\ UNCHANGED <<args, raised, locals, i, j, idx, max_length_degrees_ecef,
                   max_length_degrees_enu, furthest_satellites, closest_distance>>

\* lines 359-360: no furthest pair
AL_ReturnNone ==
    /\ pc = "ret"
    /\ ~(furthest_satellites.sat1 # None /\ furthest_satellites.sat2 # None)
    /\ result' = <<None, None, None, None, None, None>>
    /\ pc' = "done"
    /\ UNCHANGED <<args, raised, locals, i, j, idx, max_length_degrees_ecef,
                   max_length_degrees_enu, furthest_satellites, closest_distance>>

InitAL ==
    /\ args \in [satellite_positions : TargetLists, r_ac_ecef : Observers,
                 lat : Lats, lon : Lons]
    /\ pc = "calculate_apparent_length"
    /\ result = <<>>
    /\ raised = ""
    /\ locals = <<>>
    /\ i = 0
    /\ j = 0
    /\ idx = 0
    /\ max_length_degrees_ecef = <<>>
    /\ max_length_degrees_enu = <<>>
    /\ furthest_satellites = <<>>
    /\ closest_distance = <<>>

NextAL ==
    \/ AL_Begin
    \/ AL_ScanPair
    \/ AL_MidStep
    \/ AL_MidRaise
    \/ AL_Return
    \/ AL_ReturnNone

SpecAL == InitAL /\ [][NextAL]_vars

\* ------------------------------------------------------------ rot.py
\* rot1 with the sign of the sine term of outvec[2] slipped
rot1_SignSlip(vec, xval) ==
    LET temp == vec[3]
        c == Cos(xval)
        s == Sin(xval)
    IN  <<vec[1],
          RAdd(RMul(c, vec[2]), RMul(s, temp)),
          RAdd(RMul(c, vec[3]), RMul(s, vec[2]))>>

\* rot1 with the component along the axis scaled by the cosine as well
rot1_AxisScaled(vec, xval) ==
    LET temp == vec[3]
        c == Cos(xval)
        s == Sin(xval)
    IN  <<RMul(c, vec[1]),
          RAdd(RMul(c, vec[2]), RMul(s, temp)),
          RSub(RMul(c, vec[3]), RMul(s, vec[2]))>>

\* rot.py rot1 (components counted from 1: outvec[0] of the source is [1])
rot1(vec, xval) ==
    LET temp == vec[3]
        c == Cos(xval)
        s == Sin(xval)
    IN  <<vec[1],
          RAdd(RMul(c, vec[2]), RMul(s, temp)),
          RSub(RMul(c, vec[3]), RMul(s, vec[2]))>>

\* rot2 with the two sine terms' signs exchanged
rot2_SignSlip(vec, xval) ==
    LET temp == vec[3]
        c == Cos(xval)
        s == Sin(xval)
    IN  <<RAdd(RMul(c, vec[1]), RMul(s, temp)),
          vec[2],
          RSub(RMul(c, vec[3]), RMul(s, vec[1]))>>

\* rot.py rot2
rot2(vec, xval) ==
    LET temp == vec[3]
        c == Cos(xval)
        s == Sin(xval)
    IN  <<RSub(RMul(c, vec[1]), RMul(s, temp)),
          vec[2],
          RAdd(RMul(c, vec[3]), RMul(s, vec[1]))>>

\* rot3 turning the other way on every second call of a run: the sign of
\* the angle is a flag the module keeps between calls
rot3_Toggled(vec, xval) ==
    LET temp == vec[2]
        c == Cos(xval)
        s == IF Len(locals.log) % 2 = 1 THEN RNeg(Sin(xval)) ELSE Sin(xval)
    IN  <<RAdd(RMul(c, vec[1]), RMul(s, temp)),
          RSub(RMul(c, vec[2]), RMul(s, vec[1])),
          vec[3]>>

\* rot.py rot3
rot3(vec, xval) ==
    LET temp == vec[2]
        c == Cos(xval)
        s == Sin(xval)
    IN  <<RAdd(RMul(c, vec[1]), RMul(s, temp)),
          RSub(RMul(c, vec[2]), RMul(s, vec[1])),
          vec[3]>>

\* -xval
AngNeg(a) == Ang(-a.q, -a.p)

\* The rotations are called in a row, each on the vector the one before
\* returned: locals.trail holds args.vec and then every outvec, locals.calls
\* the (axis, angle) of every call.
MaxRotCalls == 2

RotVecs == {<<1, 0, 0>>, <<0, 1, 0>>, <<0, 0, 1>>, <<1, 2, 3>>, <<-2, 0, 5>>}

\* Theta0, 90 deg, 180 deg + Theta0 and their negatives, and 0
RotAngles ==
    {Ang(0, 0), Ang(0, 1), Ang(0, -1), Ang(1, 0), Ang(-1, 0), Ang(2, 1), Ang(-2, -1)}

RotCall(axis, xval, outvec) ==
    /\ pc = "rot"
    /\ Len(locals.calls) < MaxRotCalls
    /\ locals' = [trail |-> Append(locals.trail, outvec),
                  calls |-> Append(locals.calls, <<axis, xval>>)]
    /\ result' = outvec
    /\ UNCHANGED <<pc, args, raised, i, j, idx, max_length_degrees_ecef,
                   max_length_degrees_enu, furthest_satellites, closest_distance>>

\* the vector the next call is given
RotIn == locals.trail[Len(locals.trail)]

Rot1Call == \E xval \in RotAngles : RotCall(1, xval, rot1(RotIn, xval))

Rot2Call == \E xval \in RotAngles : RotCall(2, xval, rot2(RotIn, xval))

Rot3Call == \E xval \in RotAngles : RotCall(3, xval, rot3(RotIn, xval))

InitRot ==
    /\ args \in [vec : RotVecs]
    /\ pc = "rot"
    /\ locals = [trail |-> <<Vec(args.vec)>>, calls |-> <<>>]
    /\ result = <<>>
    /\ raised = ""
    /\ i = 0
    /\ j = 0
    /\ idx = 0
    /\ max_length_degrees_ecef = <<>>
    /\ max_length_degrees_enu = <<>>
    /\ furthest_satellites = <<>>
    /\ closest_distance = <<>>

NextRot == Rot1Call \/ Rot2Call \/ Rot3Call

SpecRot == InitRot /\ [][NextRot]_vars

\* -------------------------------------------------- cockpitview.py angles
\* An input angle in hundredths of a degree (Theta0 = 36.87 deg), for the
\* comparisons with pi
AngVal(a) == 9000 * a.q + 3687 * a.p

AngLt(a, b) == AngVal(a) < AngVal(b)

AngAdd(a, b) == Ang(a.q + b.q, a.p + b.p)

AngSub(a, b) == Ang(a.q - b.q, a.p - b.p)

\* np.arcsin(s) * (180 / pi), s a surd in [-1, 1]
AsinDeg(s) == [asin |-> s]

\* np.arctan2(y, x) * (180 / pi) for fractions y and x: the angle in
\* (-180, 180] of the direction (x, y), kept as that direction in lowest
\* integer terms <<y, x>>.  arctan2(0, 0) is 0, the angle of <<0, 1>>.  (The
\* one zero of exact arithmetic does not tell +0.0 from -0.0, for which numpy
\* returns 180 or -180 when x is -0.0.)
Atan2Deg(y, x) ==
    LET g  == GCD(y[2], x[2])
        yi == y[1] * (x[2] \div g)
        xi == x[1] * (y[2] \div g)
        h  == GCD(Abs(yi), Abs(xi))
    IN  IF yi = 0 /\ xi = 0 THEN [atan2 |-> <<0, 1>>]
        ELSE [atan2 |-> <<yi \div h, xi \div h>>]

\* x < r for a surd x >= 0 and a fraction r > 0: n/d < (a/b)^2, which is
\* n * b^2 < a^2 * d, by two integer divisions so that b^2 is never formed
SLtRat(x, r) ==
    x.ssq[1] <= ((r[1] * r[1] * x.ssq[2] - 1) \div r[2]) \div r[2]

\* ------------------------------------------------------ twoecef2razel
\* line 107: small = 0.00000001 (km)
small == <<1, 100000000>>

\* Lengths are whole multiples of a unit; args.units_per_km (1, or 10^9 for
\* lengths near small) says how many units make the km of the data, so small
\* is this many units:
SmallIn(units_per_km) == RMul(small, RInt(units_per_km))

\* RazelEl dividing by the horizontal magnitude for the whole magnitude
RazelEl_OverHorizontal(rhosez, temp, sm) ==
    IF SLtRat(temp, sm)
    THEN AsinDeg(SRat(RInt(RSgn(rhosez[3]))))
    ELSE AsinDeg(SDiv(SRat(rhosez[3]), temp))

\* lines 136-140 and 142: eldeg
RazelEl(rhosez, temp, sm) ==
    IF SLtRat(temp, sm)
    THEN AsinDeg(SRat(RInt(RSgn(rhosez[3]))))
    ELSE LET magrhosez == magnitude(rhosez)
         IN  AsinDeg(SDiv(SRat(rhosez[3]), magrhosez))

\* RazelAz without the singular branch: azimuth from the position always
RazelAz_PositionOnly(rhosez, drhosez, temp, sm) ==
    Atan2Deg(rhosez[2], RNeg(rhosez[1]))

\* lines 144-147: az
RazelAz(rhosez, drhosez, temp, sm) ==
    IF SLtRat(temp, sm)
    THEN Atan2Deg(drhosez[2], RNeg(drhosez[1]))
    ELSE Atan2Deg(rhosez[2], RNeg(rhosez[1]))

\* RazelLon wrapping a second time when once is not enough
RazelLon_Twice(lon0) ==
    LET pi    == Ang(2, 0)
        twopi == Ang(4, 0)
        once  == IF AngLt(lon0, AngNeg(pi)) THEN AngAdd(lon0, twopi)
                 ELSE IF AngLt(pi, lon0) THEN AngSub(lon0, twopi)
                 ELSE lon0
    IN  IF AngLt(once, AngNeg(pi)) THEN AngAdd(once, twopi)
        ELSE IF AngLt(pi, once) THEN AngSub(once, twopi)
        ELSE once

\* lines 109-112: lon after the wrap
RazelLon(lon0) ==
    LET pi    == Ang(2, 0)
        twopi == Ang(4, 0)
    IN  IF AngLt(lon0, AngNeg(pi)) THEN AngAdd(lon0, twopi)
        ELSE IF AngLt(pi, lon0) THEN AngSub(lon0, twopi)
        ELSE lon0

\* lines 104-149: the locals and the returned (rho, az, eldeg)
twoecef2razel(r1ecef, v1ecef, r2ecef, v2ecef, lat, lon0, units_per_km) ==
    LET pi     == Ang(2, 0)
        halfpi == Ang(1, 0)
        twopi  == Ang(4, 0)
        sm     == SmallIn(units_per_km)
        lon    == RazelLon(lon0)
        rhoecef  == VSub(Vec(r2ecef), Vec(r1ecef))
        drhoecef == VSub(Vec(v2ecef), Vec(v1ecef))
        rho      == magnitude(rhoecef)
        rhosez   == rot2(rot3(rhoecef, lon), AngSub(halfpi, lat))
        drhosez  == rot2(rot3(drhoecef, lon), AngSub(halfpi, lat))
        temp     == Sqrt(RAdd(RMul(rhosez[1], rhosez[1]), RMul(rhosez[2], rhosez[2])))
        eldeg    == RazelEl(rhosez, temp, sm)
        az       == RazelAz(rhosez, drhosez, temp, sm)
    IN  [lon |-> lon, rhoecef |-> rhoecef, drhoecef |-> drhoecef,
         rhosez |-> rhosez, drhosez |-> drhosez, temp |-> temp,
         ret |-> <<rho, az, eldeg>>]

VAdd3(a, b) == <<a[1] + b[1], a[2] + b[2], a[3] + b[3]>>

RazelObservers == {<<6378, 0, 0>>, <<1, 2, 3>>}

\* target minus observer: nothing, 6 or 100 units along x, 8 along y, 6 down
\* or 100 up along z, in every combination
RazelDeltas == {<<0, 6, 100>>[a] : a \in 1 .. 3} \X {0, 8} \X {-6, 0, 100}

RazelV1 == {<<0, 0, 0>>, <<0, 1, 0>>}

RazelV2 == {<<0, 0, 0>>, <<0, 0, 1>>, <<1, 1, 0>>}

\* 0, Theta0 and 90 deg
RazelLats == {Ang(0, 0), Ang(0, 1), Ang(1, 0)}

\* 0, 90 deg, Theta0 - 90 deg and 180 deg within [-pi, pi]; 270, -270,
\* 180 + Theta0 and 540 deg (3 pi) one turn or less outside; 630 and -630 deg
\* more than one turn outside
RazelLons ==
    {Ang(0, 0), Ang(1, 0), Ang(-1, 1), Ang(2, 0), Ang(3, 0), Ang(-3, 0),
     Ang(2, 1), Ang(6, 0), Ang(7, 0), Ang(-7, 0)}

UnitsPerKm == {1, 1000000000}

InitRazel ==
    /\ \E o \in RazelObservers, d \in RazelDeltas :
           args \in [r1ecef : {o}, v1ecef : RazelV1, r2ecef : {VAdd3(o, d)},
                     v2ecef : RazelV2, lat : RazelLats, lon : RazelLons,
                     units_per_km : UnitsPerKm]
    /\ pc = "twoecef2razel"
    /\ locals = <<>>
    /\ result = <<>>
    /\ raised = ""
    /\ i = 0
    /\ j = 0
    /\ idx = 0
    /\ max_length_degrees_ecef = <<>>
    /\ max_length_degrees_enu = <<>>
    /\ furthest_satellites = <<>>
    /\ closest_distance = <<>>

\* cockpitview.py lines 100-149: the call runs to its return
RazelCall ==
    /\ pc = "twoecef2razel"
    /\ LET r == twoecef2razel(args.r1ecef, args.v1ecef, args.r2ecef, args.v2ecef,
                              args.lat, args.lon, args.units_per_km)
       IN  /\ locals' = [lon |-> r.lon, rhoecef |-> r.rhoecef,
                         drhoecef |-> r.drhoecef, rhosez |-> r.rhosez,
                         drhosez |-> r.drhosez, temp |-> r.temp]
           /\ result' = r.ret
    /\ pc' = "done"
    /\ UNCHANGED <<args, raised, i, j, idx, max_length_degrees_ecef,
                   max_length_degrees_enu, furthest_satellites, closest_distance>>

NextRazel == RazelCall

SpecRazel == InitRazel /\ [][NextRazel]_vars

\* ------------------------------------------- cockpitview.py: the ENU path
\* cockpitview.py twoecef2enu: (east, north, up) of satecef - acecef
twoecef2enu(acecef, satecef, lat, lon) ==
    LET u == RSub(Vec(satecef)[1], Vec(acecef)[1])
        v == RSub(Vec(satecef)[2], Vec(acecef)[2])
        w == RSub(Vec(satecef)[3], Vec(acecef)[3])
        temp  == RAdd(RMul(Cos(lon), u), RMul(Sin(lon), v))
        east  == RAdd(RMul(RNeg(Sin(lon)), u), RMul(Cos(lon), v))
        up    == RAdd(RMul(Cos(lat), temp), RMul(Sin(lat), w))
        north == RAdd(RMul(RNeg(Sin(lat)), temp), RMul(Cos(lat), w))
    IN  <<east, north, up>>

\* calculate_heading_from_velocity with the arguments of arctan2 exchanged:
\* the angle counted from east towards north
calculate_heading_from_velocity_Swapped(vecef, lat, lon) ==
    LET u == Vec(vecef)[1]
        v == Vec(vecef)[2]
        w == Vec(vecef)[3]
        temp    == RAdd(RMul(Cos(lon), u), RMul(Sin(lon), v))
        v_east  == RAdd(RMul(RNeg(Sin(lon)), u), RMul(Cos(lon), v))
        v_north == RAdd(RMul(RNeg(Sin(lat)), temp), RMul(Cos(lat), w))
    IN  Atan2Deg(v_north, v_east)

\* calculate_heading_from_velocity giving 180 degrees (due south) when there
\* is no horizontal velocity
calculate_heading_from_velocity_OriginSouth(vecef, lat, lon) ==
    LET u == Vec(vecef)[1]
        v == Vec(vecef)[2]
        w == Vec(vecef)[3]
        temp    == RAdd(RMul(Cos(lon), u), RMul(Sin(lon), v))
        v_east  == RAdd(RMul(RNeg(Sin(lon)), u), RMul(Cos(lon), v))
        v_north == RAdd(RMul(RNeg(Sin(lat)), temp), RMul(Cos(lat), w))
    IN  IF v_east = Zero /\ v_north = Zero THEN [atan2 |-> <<0, -1>>]
        ELSE Atan2Deg(v_east, v_north)

\* cockpitview.py calculate_heading_from_velocity: np.arctan2(v_east,
\* v_north).  The angle is kept as Atan2Deg keeps it, which is the same angle
\* whether it is read in radians (as returned) or in degrees.
calculate_heading_from_velocity(vecef, lat, lon) ==
    LET u == Vec(vecef)[1]
        v == Vec(vecef)[2]
        w == Vec(vecef)[3]
        temp    == RAdd(RMul(Cos(lon), u), RMul(Sin(lon), v))
        v_east  == RAdd(RMul(RNeg(Sin(lon)), u), RMul(Cos(lon), v))
        v_north == RAdd(RMul(RNeg(Sin(lat)), temp), RMul(Cos(lat), w))
    IN  Atan2Deg(v_east, v_north)

\* lines 269-278: 1e-3 (km), below which twoecef2aer zeroes a component
aer_zero_below == <<1, 1000>>

\* ZeroBelow left out: the component is used as it is
ZeroBelow_Off(x, units_per_km) == x

\* lines 273-278 (the except branch, which a scalar always takes): x, or 0.0
\* when abs(x) < 1e-3
ZeroBelow(x, units_per_km) ==
    IF RLt(RAbs(x), RMul(aer_zero_below, RInt(units_per_km))) THEN Zero ELSE x

\* np.arctan2(u, r) in degrees for a fraction u and a root r >= 0: the angle
\* in [-90, 90] whose sine is u / sqrt(r^2 + u^2), and 0 for arctan2(0, 0)
Atan2RootDeg(u, r) ==
    LET h2 == RAdd(r.ssq, RMul(u, u))
    IN  IF h2 = Zero THEN AsinDeg(SRat(Zero))
        ELSE AsinDeg(SDiv(SRat(u), Sqrt(h2)))

\* a % tau for an angle a in (-180, 180]: a itself when a >= 0, a + 360
\* degrees (turn = 1) when a < 0
ModTau(a) == [atan2 |-> a.atan2, turn |-> IF a.atan2[1] < 0 THEN 1 ELSE 0]

\* twoecef2aer without the % tau
twoecef2aer_NoWrap(acecef, satecef, lat, lon, units_per_km) ==
    LET enu == twoecef2enu(acecef, satecef, lat, lon)
        e == ZeroBelow(enu[1], units_per_km)
        n == ZeroBelow(enu[2], units_per_km)
        u == ZeroBelow(enu[3], units_per_km)
        r == Sqrt(RAdd(RMul(e, e), RMul(n, n)))
        slantRange == Sqrt(RAdd(r.ssq, RMul(u, u)))
        elev == Atan2RootDeg(u, r)
        az == [atan2 |-> Atan2Deg(e, n).atan2, turn |-> 0]
    IN  <<slantRange, az, elev>>

\* cockpitview.py twoecef2aer: (slantRange, az, elev)
twoecef2aer(acecef, satecef, lat, lon, units_per_km) ==
    LET enu == twoecef2enu(acecef, satecef, lat, lon)
        e == ZeroBelow(enu[1], units_per_km)
        n == ZeroBelow(enu[2], units_per_km)
        u == ZeroBelow(enu[3], units_per_km)
        r == Sqrt(RAdd(RMul(e, e), RMul(n, n)))
        slantRange == Sqrt(RAdd(r.ssq, RMul(u, u)))
        elev == Atan2RootDeg(u, r)
        az == ModTau(Atan2Deg(e, n))
    IN  <<slantRange, az, elev>>

\* cockpitview with the rotation by +heading for -heading
cockpitview_PlusHeading(r1ecef, v1ecef, r2ecef, lat, lon) ==
    LET pos_enu == twoecef2enu(r1ecef, r2ecef, lat, lon)
        e == pos_enu[1]
        n == pos_enu[2]
        u == pos_enu[3]
        heading_radians == calculate_heading_from_velocity(v1ecef, lat, lon)
        hn == RInt(heading_radians.atan2[2])
        he == RInt(heading_radians.atan2[1])
        hyp2 == RAdd(RMul(hn, hn), RMul(he, he))
        e_num == RAdd(RMul(e, hn), RMul(n, he))
        n_num == RAdd(RMul(RNeg(e), he), RMul(n, hn))
        e_prime2 == RDiv(RMul(e_num, e_num), hyp2)
        n_prime2 == RDiv(RMul(n_num, n_num), hyp2)
        u_prime == u
        range == Sqrt(RAdd(RAdd(e_prime2, n_prime2), RMul(u_prime, u_prime)))
        horiz_range == Sqrt(RAdd(e_prime2, n_prime2))
        lookdeg == Atan2Deg(e_num, n_num)
        eldeg == Atan2RootDeg(u_prime, horiz_range)
    IN  <<range, lookdeg, eldeg>>

\* cockpitview with the sign of the sine term of n_prime slipped, which is
\* then no rotation
cockpitview_SignSlip(r1ecef, v1ecef, r2ecef, lat, lon) ==
    LET pos_enu == twoecef2enu(r1ecef, r2ecef, lat, lon)
        e == pos_enu[1]
        n == pos_enu[2]
        u == pos_enu[3]
        heading_radians == calculate_heading_from_velocity(v1ecef, lat, lon)
        hn == RInt(heading_radians.atan2[2])
        he == RInt(heading_radians.atan2[1])
        hyp2 == RAdd(RMul(hn, hn), RMul(he, he))
        e_num == RSub(RMul(e, hn), RMul(n, he))
        n_num == RSub(RMul(n, hn), RMul(e, he))
        e_prime2 == RDiv(RMul(e_num, e_num), hyp2)
        n_prime2 == RDiv(RMul(n_num, n_num), hyp2)
        u_prime == u
        range == Sqrt(RAdd(RAdd(e_prime2, n_prime2), RMul(u_prime, u_prime)))
        horiz_range == Sqrt(RAdd(e_prime2, n_prime2))
        lookdeg == Atan2Deg(e_num, n_num)
        eldeg == Atan2RootDeg(u_prime, horiz_range)
    IN  <<range, lookdeg, eldeg>>

\* cockpitview.py cockpitview: (range, lookdeg, eldeg).  The heading is the
\* angle of a direction (hn, he) = (north, east) of length hyp, so
\* cos(-heading) = hn / hyp and sin(-heading) = -he / hyp, and
\*   e_prime = (e * hn - n * he) / hyp,  n_prime = (e * he + n * hn) / hyp.
\* e_num and n_num are their numerators: the squares of e_prime and n_prime
\* are fractions, and arctan2(e_prime, n_prime) is the angle of the direction
\* (n_num, e_num), hyp being positive.
cockpitview(r1ecef, v1ecef, r2ecef, lat, lon) ==
    LET pos_enu == twoecef2enu(r1ecef, r2ecef, lat, lon)
        e == pos_enu[1]
        n == pos_enu[2]
        u == pos_enu[3]
        heading_radians == calculate_heading_from_velocity(v1ecef, lat, lon)
        hn == RInt(heading_radians.atan2[2])
        he == RInt(heading_radians.atan2[1])
        hyp2 == RAdd(RMul(hn, hn), RMul(he, he))
        e_num == RSub(RMul(e, hn), RMul(n, he))
        n_num == RAdd(RMul(e, he), RMul(n, hn))
        e_prime2 == RDiv(RMul(e_num, e_num), hyp2)
        n_prime2 == RDiv(RMul(n_num, n_num), hyp2)
        u_prime == u
        range == Sqrt(RAdd(RAdd(e_prime2, n_prime2), RMul(u_prime, u_prime)))
        horiz_range == Sqrt(RAdd(e_prime2, n_prime2))
        lookdeg == Atan2Deg(e_num, n_num)
        eldeg == Atan2RootDeg(u_prime, horiz_range)
    IN  <<range, lookdeg, eldeg>>

\* The caller hands the same observer, target, latitude and longitude to
\* each function of cockpitview.py in turn; locals keeps what each returned
\* (None before its call).
ViewObservers == {<<6378, 0, 0>>}

\* target minus observer
ViewDeltas == {-3, 0, 1, 3} \X {-1, 0, 4} \X {-4, 0, 4}

\* observer velocities: none, along each axis, (0, 1, 1), which is north-east
\* at latitude 0, longitude 0, and (-3, 0, 4), which is due north at latitude
\* Theta0, longitude 0, with its opposite
ViewV1 ==
    {<<0, 0, 0>>, <<0, 1, 0>>, <<0, -1, 0>>, <<0, 0, 1>>, <<1, 0, 0>>,
     <<0, 1, 1>>, <<-3, 0, 4>>, <<3, 0, -4>>}

ViewV2 == {<<0, 0, 0>>, <<1, 1, 0>>}

\* 0, Theta0 and 90 deg
ViewLats == {Ang(0, 0), Ang(0, 1), Ang(1, 0)}

\* 0, 90 deg and Theta0 - 90 deg
ViewLons == {Ang(0, 0), Ang(1, 0), Ang(-1, 1)}

\* a unit is a km, or a metre (so that 1e-3 km is one unit)
ViewUnitsPerKm == {1, 1000}

InitView ==
    /\ \E o \in ViewObservers, d \in ViewDeltas :
           args \in [r1ecef : {o}, v1ecef : ViewV1, r2ecef : {VAdd3(o, d)},
                     v2ecef : ViewV2, lat : ViewLats, lon : ViewLons,
                     units_per_km : ViewUnitsPerKm]
    /\ pc = "twoecef2razel"
    /\ locals = [razel |-> None, enu |-> None, aer |-> None,
                 heading |-> None, cockpit |-> None]
    /\ result = <<>>
    /\ raised = ""
    /\ i = 0
    /\ j = 0
    /\ idx = 0
    /\ max_length_degrees_ecef = <<>>
    /\ max_length_degrees_enu = <<>>
    /\ furthest_satellites = <<>>
    /\ closest_distance = <<>>

\* one call: the function at pc returns ret and the caller goes on to next
ViewCall(fn, field, ret, next) ==
    /\ pc = fn
    /\ result' = ret
    /\ locals' = [locals EXCEPT ![field] = Some(ret)]
    /\ pc' = next
    /\ UNCHANGED <<args, raised, i, j, idx, max_length_degrees_ecef,
                   max_length_degrees_enu, furthest_satellites, closest_distance>>

\* cockpitview.py lines 100-149; the SEZ vector is kept with the return value
View_twoecef2razel ==
    LET r == twoecef2razel(args.r1ecef, args.v1ecef, args.r2ecef, args.v2ecef,
                           args.lat, args.lon, args.units_per_km)
    IN  ViewCall("twoecef2razel", "razel",
                 [rhosez |-> r.rhosez, temp |-> r.temp, ret |-> r.ret],
                 "twoecef2enu")

View_twoecef2enu ==
    ViewCall("twoecef2enu", "enu",
             twoecef2enu(args.r1ecef, args.r2ecef, args.lat, args.lon),
             "twoecef2aer")

View_twoecef2aer ==
    ViewCall("twoecef2aer", "aer",
             twoecef2aer(args.r1ecef, args.r2ecef, args.lat, args.lon,
                         args.units_per_km),
             "calculate_heading_from_velocity")

View_calculate_heading_from_velocity ==
    ViewCall("calculate_heading_from_velocity", "heading",
             calculate_heading_from_velocity(args.v1ecef, args.lat, args.lon),
             "cockpitview")

View_cockpitview ==
    ViewCall("cockpitview", "cockpit",
             cockpitview(args.r1ecef, args.v1ecef, args.r2ecef, args.lat, args.lon),
             "viewed")

NextView ==
    \/ View_twoecef2razel
    \/ View_twoecef2enu
    \/ View_twoecef2aer
    \/ View_calculate_heading_from_velocity
    \/ View_cockpitview

SpecView == InitView /\ [][NextView]_vars

\* ------------------------------------- relative.py: the sun grazing angle
\* cross_product with the sign of the second term of the second component
\* slipped
cross_product_SignSlip(a, b) ==
    <<RSub(RMul(a[2], b[3]), RMul(a[3], b[2])),
      RAdd(RMul(a[3], b[1]), RMul(a[1], b[3])),
      RSub(RMul(a[1], b[2]), RMul(a[2], b[1]))>>

\* relative.py cross_product, of two vectors of fractions
cross_product(a, b) ==
    <<RSub(RMul(a[2], b[3]), RMul(a[3], b[2])),
      RSub(RMul(a[3], b[1]), RMul(a[1], b[3])),
      RSub(RMul(a[1], b[2]), RMul(a[2], b[1]))>>

\* A vector divided by a root is kept as [v |-> the vector, d2 |-> q] for
\* v / sqrt(q), and a number divided by a root as [num |-> x, d2 |-> q] for
\* x / sqrt(q), q > 0.

\* relative.py normalize, for a vector of non-zero magnitude
normalize(v) == [v |-> v, d2 |-> dot_product(v, v)]

\* line 135-136: mag is 0.0 and v[0] / mag raises ZeroDivisionError
NormalizeRaises(v) == dot_product(v, v) = Zero

\* cross_product of two vectors over roots (line 204)
cross_product_hat(a, b) == [v |-> cross_product(a.v, b.v), d2 |-> RMul(a.d2, b.d2)]

\* ecef_to_ntw_matrix with t_hat = v, not normalized
ecef_to_ntw_matrix_TangentAsGiven(r, v) ==
    LET n_hat == normalize(cross_product(r, v))
        t_hat == [v |-> v, d2 |-> One]
        w_hat == cross_product_hat(t_hat, n_hat)
    IN  <<n_hat, t_hat, w_hat>>

\* relative.py ecef_to_ntw_matrix: [n_hat, t_hat, w_hat]
ecef_to_ntw_matrix(r, v) ==
    LET n_hat == normalize(cross_product(r, v))
        t_hat == normalize(v)
        w_hat == cross_product_hat(t_hat, n_hat)
    IN  <<n_hat, t_hat, w_hat>>

\* relative.py transform_vector: dot_product of each row with the vector
transform_vector(matrix, vector) ==
    [k \in 1 .. 3 |-> [num |-> dot_product(matrix[k].v, vector), d2 |-> matrix[k].d2]]

\* dot_product and magnitude of vectors in the NTW frame; component k of
\* both vectors is over the root of row k of the matrix, so the product of
\* the two components is num * num / d2
dot_product_NTW(A, B) ==
    RAdd(RAdd(RDiv(RMul(A[1].num, B[1].num), A[1].d2),
              RDiv(RMul(A[2].num, B[2].num), A[2].d2)),
         RDiv(RMul(A[3].num, B[3].num), A[3].d2))

magnitude_NTW(v) == Sqrt(dot_product_NTW(v, v))

\* line 213: magnitude(A) * magnitude(B) is 0.0 and the division raises
\* ZeroDivisionError
AngleRaises(A, B) == SIsZero(SMul(magnitude_NTW(A), magnitude_NTW(B)))

\* angle_between_vectors with the dot product divided by magnitude(A) alone
angle_between_vectors_OneMagnitude(A, B) ==
    LET cos_theta == SDiv(SRat(dot_product_NTW(A, B)), magnitude_NTW(A))
    IN  AcosDeg(SMax(SRat(RInt(-1)), SMin(SRat(One), cos_theta)))

\* relative.py angle_between_vectors (degrees), for vectors of non-zero
\* magnitude
angle_between_vectors(A, B) ==
    LET cos_theta == SDiv(SRat(dot_product_NTW(A, B)),
                          SMul(magnitude_NTW(A), magnitude_NTW(B)))
    IN  AcosDeg(SMax(SRat(RInt(-1)), SMin(SRat(One), cos_theta)))

\* line 392: (180 - theta_NTW) / 2, kept by the angle theta_NTW it is the
\* half supplement of
HalfSupplement(theta) == [half_supplement_of |-> theta]

\* sun and observer positions: the origin, (1, 2, 2) with its double and its
\* opposite, and two others
GrazePositions ==
    {<<0, 0, 0>>, <<1, 2, 2>>, <<2, 4, 4>>, <<-1, -2, -2>>, <<2, 0, 1>>, <<0, 3, -1>>}

GrazeBodyPositions == {<<1, 0, 0>>, <<1, 2, 0>>, <<2, 1, 3>>}

\* body velocities: none, (2, 0, 0) and (2, 4, 0), each parallel to one of the
\* body positions, and two more
GrazeBodyVelocities ==
    {<<0, 0, 0>>, <<0, 1, 0>>, <<2, 0, 0>>, <<0, 1, 3>>, <<2, 4, 0>>}

GrazeVelocities == {<<0, 0, 0>>, <<1, 0, 0>>}

InitGraze ==
    /\ args \in [r_ac_ecef : GrazePositions, v_ac_ecef : GrazeVelocities,
                 r_sun_ecef : GrazePositions, v_sun_ecef : GrazeVelocities,
                 r_satellite : GrazeBodyPositions,
                 v_satellite : GrazeBodyVelocities]
    /\ pc = "calculate_sun_grazing_angle"
    /\ locals = <<>>
    /\ result = <<>>
    /\ raised = ""
    /\ i = 0
    /\ j = 0
    /\ idx = 0
    /\ max_length_degrees_ecef = <<>>
    /\ max_length_degrees_enu = <<>>
    /\ furthest_satellites = <<>>
    /\ closest_distance = <<>>

\* relative.py calculate_sun_grazing_angle: how the call ends (raised is ""
\* for a return), the locals it had set by then, and graze_angle_NTW.  r_ac,
\* v_ac, r_sun and v_sun are the parameters r_ac_ecef, v_ac_ecef, r_sun_ecef
\* and v_sun_ecef.
\* Line 381 ends in a ZeroDivisionError when normalize (line 136) divides by
\* the zero magnitude of r x v (line 202); a zero v makes r x v zero, so line
\* 203 is never the first to raise.  Line 388 ends in one when
\* angle_between_vectors (line 213) divides by a zero product of magnitudes.
calculate_sun_grazing_angle(r_ac, v_ac, r_sun, v_sun, r_satellite, v_satellite) ==
    IF NormalizeRaises(cross_product(Vec(r_satellite), Vec(v_satellite)))
    THEN [raised |-> "ZeroDivisionError", locals |-> <<>>, ret |-> <<>>]
    ELSE LET ecef_to_ntw == ecef_to_ntw_matrix(Vec(r_satellite), Vec(v_satellite))
             position_sun_NTW == transform_vector(ecef_to_ntw, Vec(r_sun))
             position_aircraft_NTW == transform_vector(ecef_to_ntw, Vec(r_ac))
             set == [ecef_to_ntw |-> ecef_to_ntw,
                     position_sun_NTW |-> position_sun_NTW,
                     position_aircraft_NTW |-> position_aircraft_NTW]
         IN  IF AngleRaises(position_sun_NTW, position_aircraft_NTW)
             THEN [raised |-> "ZeroDivisionError", locals |-> set, ret |-> <<>>]
             ELSE [raised |-> "", locals |-> set,
                   ret |-> HalfSupplement(
                       angle_between_vectors(position_sun_NTW, position_aircraft_NTW))]

\* the call on the arguments of SpecGraze
GrazeOutcome ==
    calculate_sun_grazing_angle(args.r_ac_ecef, args.v_ac_ecef, args.r_sun_ecef,
                                args.v_sun_ecef, args.r_satellite, args.v_satellite)

\* the call ends at line 381, in ecef_to_ntw_matrix
Graze_RaiseNormalize ==
    /\ pc = "calculate_sun_grazing_angle"
    /\ GrazeOutcome.raised # ""
    /\ GrazeOutcome.locals = <<>>
    /\ raised' = GrazeOutcome.raised
    /\ pc' = "raised"
    /\ UNCHANGED <<args, result, locals, i, j, idx, max_length_degrees_ecef,
                   max_length_degrees_enu, furthest_satellites, closest_distance>>

\* the call ends at line 388, in angle_between_vectors
Graze_RaiseAngle ==
    /\ pc = "calculate_sun_grazing_angle"
    /\ GrazeOutcome.raised # ""
    /\ GrazeOutcome.locals # <<>>
    /\ locals' = GrazeOutcome.locals
    /\ raised' = GrazeOutcome.raised
    /\ pc' = "raised"
    /\ UNCHANGED <<args, result, i, j, idx, max_length_degrees_ecef,
                   max_length_degrees_enu, furthest_satellites, closest_distance>>

\* lines 381-394: the call returns graze_angle_NTW
Graze_Return ==
    /\ pc = "calculate_sun_grazing_angle"
    /\ GrazeOutcome.raised = ""
    /\ locals' = GrazeOutcome.locals
    /\ result' = GrazeOutcome.ret
    /\ pc' = "done"
    /\ UNCHANGED <<args, raised, i, j, idx, max_length_degrees_ecef,
                   max_length_degrees_enu, furthest_satellites, closest_distance>>

NextGraze ==
    \/ Graze_RaiseNormalize
    \/ Graze_RaiseAngle
    \/ Graze_Return

SpecGraze == InitGraze /\ [][NextGraze]_vars

\* ------------------------------------ relative.py: the arccosine calls
\* The quotient dot / (magnitude * magnitude) is computed in floating point,
\* and what is computed can lie a little off the exact quotient, beyond 1 or
\* -1 included.  The computed quotient is the exact one with its square
\* scaled by (RoundingParts + err) / RoundingParts, err in -1 .. 1.
RoundingParts == 1000

Rounded(c, err) == [ssq |-> RMul(c.ssq, <<RoundingParts + err, RoundingParts>>)]

\* the clamp of line 216, max(-1.0, min(1.0, cos_theta))
ClampAngle(c) == SMax(SRat(RInt(-1)), SMin(SRat(One), c))

\* non-zero vectors: the three call sites are reached with non-zero
\* magnitudes only (lines 323 and 330 skip a zero product, line 213 raises)
AcosVectors ==
    {<<1, 0, 0>>, <<2, 0, 0>>, <<-3, 0, 0>>, <<1, 2, 2>>, <<2, 4, 4>>,
     <<0, 1, 0>>, <<1, 1, 0>>}

InitAcos ==
    /\ args \in [A : AcosVectors, B : AcosVectors, lat : Lats, lon : Lons,
                 err : -1 .. 1]
    /\ pc = "acos"
    /\ locals = <<>>
    /\ result = <<>>
    /\ raised = ""
    /\ i = 0
    /\ j = 0
    /\ idx = 0
    /\ max_length_degrees_ecef = <<>>
    /\ max_length_degrees_enu = <<>>
    /\ furthest_satellites = <<>>
    /\ closest_distance = <<>>

\* one call site: cos_theta is computed from the two vectors, clamped to
\* clamped, and math.acos(clamped) is called
AcosSite(site, vec_a, vec_b, cos_theta, clamped) ==
    /\ pc = "acos"
    /\ locals' = [site |-> site, vec_a |-> vec_a, vec_b |-> vec_b,
                  cos_theta |-> cos_theta, acos_argument |-> clamped]
    /\ result' = AcosDeg(clamped)
    /\ pc' = "done"
    /\ UNCHANGED <<args, raised, i, j, idx, max_length_degrees_ecef,
                   max_length_degrees_enu, furthest_satellites, closest_distance>>

\* the quotient of lines 213, 324 and 331 as computed
Quotient(vec_a, vec_b) ==
    Rounded(SDiv(SRat(dot_product(vec_a, vec_b)),
                 SMul(magnitude(vec_a), magnitude(vec_b))), args.err)

\* angle_between_vectors, lines 213-217
Acos_angle_between_vectors ==
    LET cos_theta == Quotient(Vec(args.A), Vec(args.B))
    IN  AcosSite("angle_between_vectors", Vec(args.A), Vec(args.B),
                 cos_theta, ClampAngle(cos_theta))

\* calculate_apparent_length, lines 320-326
Acos_length_ecef ==
    LET cos_theta == Quotient(Vec(args.A), Vec(args.B))
    IN  AcosSite("ecef", Vec(args.A), Vec(args.B),
                 cos_theta, Clamp(cos_theta))

\* calculate_apparent_length, lines 310-311 and 327-333
Acos_length_enu ==
    LET vec_a_enu == ecef2enu(Vec(args.A), args.lat, args.lon)
        vec_b_enu == ecef2enu(Vec(args.B), args.lat, args.lon)
        cos_theta == Quotient(vec_a_enu, vec_b_enu)
    IN  AcosSite("enu", vec_a_enu, vec_b_enu, cos_theta, Clamp(cos_theta))

NextAcos ==
    \/ Acos_angle_between_vectors
    \/ Acos_length_ecef
    \/ Acos_length_enu

SpecAcos == InitAcos /\ [][NextAcos]_vars

\* ------------------------------- cockpitview.py: the wrap in floating point
\* Line 284 computes a % tau in floating point: for a < 0 it is the float
\* nearest to a + tau, and that float is tau itself when a is nearer to 0 than
\* half the spacing of the floats below tau.  The spacing is taken as
\* 6 / RoundingParts radians here (it is tau / 2^52.8 in double precision), so
\* an angle a < 0 of direction <<y, x>>, tan(a) = y / x, is surely that near
\* to 0 when -y / x < 3 / RoundingParts.  The result is then 360 degrees.
ModTauFloat(a) ==
    IF /\ a.atan2[1] < 0
       /\ a.atan2[2] > 0
       /\ (-a.atan2[1]) * RoundingParts < 3 * a.atan2[2]
    THEN [atan2 |-> <<0, 1>>, turn |-> 1]
    ELSE ModTau(a)

\* cockpitview.py twoecef2aer with line 284 in floating point
twoecef2aer_Float(acecef, satecef, lat, lon, units_per_km) ==
    LET enu == twoecef2enu(acecef, satecef, lat, lon)
        e == ZeroBelow(enu[1], units_per_km)
        n == ZeroBelow(enu[2], units_per_km)
        u == ZeroBelow(enu[3], units_per_km)
        r == Sqrt(RAdd(RMul(e, e), RMul(n, n)))
        slantRange == Sqrt(RAdd(r.ssq, RMul(u, u)))
        elev == Atan2RootDeg(u, r)
        az == ModTauFloat(Atan2Deg(e, n))
    IN  <<slantRange, az, elev>>

\* target minus observer; at latitude 0 and longitude 0 the components are
\* (up, east, north), and (0, -1, 1000) is a target far to the north and a
\* little to the west
WrapDeltas == {-1, 0, 1} \X {-2, -1, 0, 1} \X {-1, 0, 1, 1000}

WrapV1 == {<<0, 0, 0>>, <<0, 1, 1>>}

\* 0 and 90 deg
WrapLats == {Ang(0, 0), Ang(1, 0)}

\* 0 and Theta0 - 90 deg
WrapLons == {Ang(0, 0), Ang(-1, 1)}

InitWrap ==
    /\ \E o \in ViewObservers, d \in WrapDeltas :
           args \in [r1ecef : {o}, v1ecef : WrapV1, r2ecef : {VAdd3(o, d)},
                     v2ecef : {<<0, 0, 0>>}, lat : WrapLats, lon : WrapLons,
                     units_per_km : ViewUnitsPerKm]
    /\ pc = "twoecef2aer"
    /\ locals = [aer |-> None, razel |-> None, cockpit |-> None]
    /\ result = <<>>
    /\ raised = ""
    /\ i = 0
    /\ j = 0
    /\ idx = 0
    /\ max_length_degrees_ecef = <<>>
    /\ max_length_degrees_enu = <<>>
    /\ furthest_satellites = <<>>
    /\ closest_distance = <<>>

Wrap_twoecef2aer ==
    ViewCall("twoecef2aer", "aer",
             twoecef2aer_Float(args.r1ecef, args.r2ecef, args.lat, args.lon,
                               args.units_per_km),
             "twoecef2razel")

Wrap_twoecef2razel ==
    ViewCall("twoecef2razel", "razel",
             twoecef2razel(args.r1ecef, args.v1ecef, args.r2ecef, args.v2ecef,
                           args.lat, args.lon, args.units_per_km).ret,
             "cockpitview")

Wrap_cockpitview ==
    ViewCall("cockpitview", "cockpit",
             cockpitview(args.r1ecef, args.v1ecef, args.r2ecef, args.lat, args.lon),
             "wrapped")

NextWrap ==
    \/ Wrap_twoecef2aer
    \/ Wrap_twoecef2razel
    \/ Wrap_cockpitview

SpecWrap == InitWrap /\ [][NextWrap]_vars

\* --------------------------------------------- the caller: calls in a row
\* The caller holds the data of one aircraft and its satellites, as main
\* does, in args, and calls the functions on them one after the other, in any
\* order.  locals.log keeps, for each call that has ended, the function, the
\* values it was given and what it returned (or the exception it raised).
MaxCalls == 3

CallsTargetLists ==
    {<<>>, SatList(<<(<<2, 0, 0>>)>>), SatList(<<(<<2, 0, 0>>), (<<2, 0, 0>>)>>),
     SatList(<<(<<2, 0, 0>>), (<<0, 2, 0>>)>>)}

InitCalls ==
    /\ args \in [satellite_positions : CallsTargetLists,
                 r_ac_ecef : {<<1, 0, 1>>}, v_ac_ecef : {<<0, 1, 0>>},
                 lat : {Ang(0, 1)}, lon : {Ang(-1, 1)},
                 r_sun_ecef : {<<2, 0, 1>>}, v_sun_ecef : {<<0, 0, 0>>},
                 v_sat_ecef : {<<0, 1, 3>>, <<0, 0, 0>>}, units_per_km : {1}]
    /\ pc = "idle"
    /\ locals = [log |-> <<>>]
    /\ result = <<>>
    /\ raised = ""
    /\ i = 0
    /\ j = 0
    /\ idx = 0
    /\ max_length_degrees_ecef = <<>>
    /\ max_length_degrees_enu = <<>>
    /\ furthest_satellites = <<>>
    /\ closest_distance = <<>>

\* satellite k's position, k counted from 1
CallsTarget(k) == satellite_positions[k].position

\* a call of a function that runs to its end in one step
Call(fn, given, ret) ==
    /\ pc = "idle"
    /\ Len(locals.log) < MaxCalls
    /\ locals' = [log |-> Append(locals.log,
                                 [fn |-> fn, given |-> given, ret |-> ret])]
    /\ result' = ret
    /\ UNCHANGED <<pc, args, raised, i, j, idx, max_length_degrees_ecef,
                   max_length_degrees_enu, furthest_satellites, closest_distance>>

Calls_rot1 ==
    \E k \in 1 .. NumSats :
        Call("rot1", <<CallsTarget(k), args.lon>>,
             rot1(Vec(CallsTarget(k)), args.lon))

Calls_rot2 ==
    Call("rot2", <<args.r_ac_ecef, args.lat>>, rot2(Vec(args.r_ac_ecef), args.lat))

Calls_rot3 ==
    Call("rot3", <<args.v_ac_ecef, args.lon>>, rot3(Vec(args.v_ac_ecef), args.lon))

Calls_twoecef2razel ==
    /\ NumSats >= 1
    /\ Call("twoecef2razel",
            <<args.r_ac_ecef, args.v_ac_ecef, CallsTarget(1), args.v_sat_ecef,
              args.lat, args.lon>>,
            twoecef2razel(args.r_ac_ecef, args.v_ac_ecef, CallsTarget(1),
                          args.v_sat_ecef, args.lat, args.lon,
                          args.units_per_km).ret)

Calls_ecef2enu ==
    Call("ecef2enu", <<args.v_ac_ecef, args.lat, args.lon>>,
         ecef2enu(Vec(args.v_ac_ecef), args.lat, args.lon))

Calls_twoecef2enu ==
    /\ NumSats >= 1
    /\ Call("twoecef2enu", <<args.r_ac_ecef, CallsTarget(1), args.lat, args.lon>>,
            twoecef2enu(args.r_ac_ecef, CallsTarget(1), args.lat, args.lon))

Calls_twoecef2aer ==
    /\ NumSats >= 1
    /\ Call("twoecef2aer", <<args.r_ac_ecef, CallsTarget(1), args.lat, args.lon>>,
            twoecef2aer(args.r_ac_ecef, CallsTarget(1), args.lat, args.lon,
                        args.units_per_km))

Calls_calculate_heading_from_velocity ==
    Call("calculate_heading_from_velocity", <<args.v_ac_ecef, args.lat, args.lon>>,
         calculate_heading_from_velocity(args.v_ac_ecef, args.lat, args.lon))

\* relative.py line 478
Calls_cockpitview ==
    \E k \in 1 .. NumSats :
        Call("cockpitview",
             <<args.r_ac_ecef, args.v_ac_ecef, CallsTarget(k), args.lat, args.lon>>,
             cockpitview(args.r_ac_ecef, args.v_ac_ecef, CallsTarget(k),
                         args.lat, args.lon))

\* relative.py line 475; an exception is caught by the caller and logged
Calls_calculate_sun_grazing_angle ==
    \E k \in 1 .. NumSats :
        LET r == calculate_sun_grazing_angle(
                     args.r_ac_ecef, args.v_ac_ecef, args.r_sun_ecef,
                     args.v_sun_ecef, CallsTarget(k), args.v_sat_ecef)
        IN  Call("calculate_sun_grazing_angle",
                 <<args.r_ac_ecef, args.v_ac_ecef, args.r_sun_ecef,
                   args.v_sun_ecef, CallsTarget(k), args.v_sat_ecef>>,
                 [raised |-> r.raised, ret |-> r.ret])

\* relative.py line 502: calculate_apparent_length is entered; its steps are
\* AL_Begin to AL_Return
Calls_calculate_apparent_length ==
    /\ pc = "idle"
    /\ Len(locals.log) < MaxCalls
    /\ pc' = "calculate_apparent_length"
    /\ result' = <<>>
    /\ UNCHANGED <<args, raised, locals, i, j, idx, max_length_degrees_ecef,
                   max_length_degrees_enu, furthest_satellites, closest_distance>>

\* calculate_apparent_length has returned or raised, and the caller goes on
Calls_apparent_length_Ended ==
    /\ pc \in {"done", "raised"}
    /\ locals' = [log |-> Append(locals.log,
                      [fn |-> "calculate_apparent_length",
                       given |-> <<args.satellite_positions, args.r_ac_ecef,
                                   args.lat, args.lon>>,
                       ret |-> [raised |-> raised, ret |-> result]])]
    /\ raised' = ""
    /\ pc' = "idle"
    /\ UNCHANGED <<args, result, i, j, idx, max_length_degrees_ecef,
                   max_length_degrees_enu, furthest_satellites, closest_distance>>

NextCalls ==
    \/ Calls_rot1
    \/ Calls_rot2
    \/ Calls_rot3
    \/ Calls_twoecef2razel
    \/ Calls_ecef2enu
    \/ Calls_twoecef2enu
    \/ Calls_twoecef2aer
    \/ Calls_calculate_heading_from_velocity
    \/ Calls_cockpitview
    \/ Calls_calculate_sun_grazing_angle
    \/ Calls_calculate_apparent_length
    \/ AL_Begin
    \/ AL_ScanPair
    \/ AL_MidStep
    \/ AL_MidRaise
    \/ AL_Return
    \/ AL_ReturnNone
    \/ Calls_apparent_length_Ended

SpecCalls == InitCalls /\ [][NextCalls]_vars

\* ------------------------------------------------- relative.py: main
\* main walks the directories in the order os.walk gives them.  A directory
\* is [sun, aircrafts, satellites]: the sun position in its sun file (None
\* when it has no sun file) and how many aircraft and satellite files it has.
\* i counts the directories done, j the aircraft done in the directory under
\* way, idx the satellites done for the aircraft under way.  locals holds
\* main's locals sun_file, r_sun_ecef (None while it is unbound), output_data
\* and length_data; result holds the output.csv files written.
MaxDirs == 2

MaxAircrafts == 2

MaxSatellites == 2

\* the sun positions found in sun files
SunPositions == {<<2, 0, 1>>, <<0, 3, -1>>}

Directories ==
    [sun : {None} \cup {Some(p) : p \in SunPositions},
     aircrafts : 0 .. MaxAircrafts, satellites : 0 .. MaxSatellites]

\* the data of every aircraft file, and of satellite file k (the satellites
\* of a directory are at different places)
MainAircraft == [r |-> <<1, 2, 2>>, v |-> <<0, 1, 0>>]

MainSatellite(k) == [r |-> <<k, 2, 0>>, v |-> <<0, 1, 3>>]

InitMain ==
    /\ \E n \in 1 .. MaxDirs : args \in [directories : [1 .. n -> Directories]]
    /\ pc = "walk"
    /\ locals = [sun_file |-> None, r_sun_ecef |-> None,
                 output_data |-> <<>>, length_data |-> <<>>]
    /\ result = <<>>
    /\ raised = ""
    /\ i = 0
    /\ j = 0
    /\ idx = 0
    /\ max_length_degrees_ecef = <<>>
    /\ max_length_degrees_enu = <<>>
    /\ furthest_satellites = <<>>
    /\ closest_distance = <<>>

\* the directory under way
subdir == args.directories[i + 1]

\* lines 403-411: the next directory is entered; output_data and length_data
\* are emptied and sun_file is looked for.  r_sun_ecef is not touched.
Main_Directory ==
    /\ pc = "walk"
    /\ i < Len(args.directories)
    /\ locals' = [locals EXCEPT !.sun_file = subdir.sun,
                                !.output_data = <<>>, !.length_data = <<>>]
    /\ j' = 0
    /\ pc' = "aircraft"
    /\ UNCHANGED <<args, result, raised, i, idx, max_length_degrees_ecef,
                   max_length_degrees_enu, furthest_satellites, closest_distance>>

\* lines 415-456: the next aircraft file is read; if the directory has a sun
\* file (line 441) it is read, r_sun_ecef is assigned and the sun's row is
\* appended to output_data; if it has none, r_sun_ecef is left as it is
Main_Aircraft ==
    /\ pc = "aircraft"
    /\ j < subdir.aircrafts
    /\ locals' = IF locals.sun_file # None
                 THEN [locals EXCEPT
                          !.r_sun_ecef = locals.sun_file,
                          !.output_data = Append(@, [aircraft |-> j, row |-> "Sun"])]
                 ELSE locals
    /\ idx' = 0
    /\ pc' = "satellite"
    /\ UNCHANGED <<args, result, raised, i, j, max_length_degrees_ecef,
                   max_length_degrees_enu, furthest_satellites, closest_distance>>

\* lines 461-494 with r_sun_ecef bound: the satellite's row, with the grazing
\* angle of line 475 and the sun position it was computed from, is appended
Main_Satellite ==
    /\ pc = "satellite"
    /\ idx < subdir.satellites
    /\ locals.r_sun_ecef # None
    /\ LET graze_angle_NTW ==
               calculate_sun_grazing_angle(
                   MainAircraft.r, MainAircraft.v, locals.r_sun_ecef[1], <<0, 0, 0>>,
                   MainSatellite(idx).r, MainSatellite(idx).v).ret
       IN  locals' = [locals EXCEPT !.output_data =
                         Append(@, [aircraft |-> j, row |-> "Satellite",
                                    satellite |-> idx, subdir |-> i + 1,
                                    r_sun_ecef |-> locals.r_sun_ecef[1],
                                    graze_angle_NTW |-> graze_angle_NTW])]
    /\ idx' = idx + 1
    /\ UNCHANGED <<pc, args, result, raised, i, j, max_length_degrees_ecef,
                   max_length_degrees_enu, furthest_satellites, closest_distance>>

\* line 475 with r_sun_ecef unbound: no directory so far had a sun file, and
\* reading the local raises UnboundLocalError, which nothing catches
Main_SatelliteRaise ==
    /\ pc = "satellite"
    /\ idx < subdir.satellites
    /\ locals.r_sun_ecef = None
    /\ raised' = "UnboundLocalError"
    /\ pc' = "raised"
    /\ UNCHANGED <<args, result, locals, i, j, idx, max_length_degrees_ecef,
                   max_length_degrees_enu, furthest_satellites, closest_distance>>

\* lines 498-544: the aircraft's length entry is appended; with no satellite
\* the entry is empty, with two or more calculate_apparent_length returns
Main_Length ==
    /\ pc = "satellite"
    /\ idx = subdir.satellites
    /\ subdir.satellites # 1
    /\ locals' = [locals EXCEPT !.length_data =
                     Append(@, [aircraft |-> j, satellites |-> subdir.satellites])]
    /\ j' = j + 1
    /\ pc' = "aircraft"
    /\ UNCHANGED <<args, result, raised, i, idx, max_length_degrees_ecef,
                   max_length_degrees_enu, furthest_satellites, closest_distance>>

\* line 502 with one satellite: calculate_apparent_length ends in the
\* TypeError of AL_MidRaise, which nothing catches
Main_LengthRaise ==
    /\ pc = "satellite"
    /\ idx = subdir.satellites
    /\ subdir.satellites = 1
    /\ raised' = "TypeError"
    /\ pc' = "raised"
    /\ UNCHANGED <<args, result, locals, i, j, idx, max_length_degrees_ecef,
                   max_length_degrees_enu, furthest_satellites, closest_distance>>

\* lines 547-576: the directory's aircraft are done; output.csv is written if
\* there is anything to write
Main_Write ==
    /\ pc = "aircraft"
    /\ j = subdir.aircrafts
    /\ result' = IF locals.output_data # <<>> \/ locals.length_data # <<>>
                 THEN Append(result, [subdir |-> i + 1,
                                      length_data |-> locals.length_data,
                                      output_data |-> locals.output_data])
                 ELSE result
    /\ i' = i + 1
    /\ pc' = "walk"
    /\ UNCHANGED <<args, raised, locals, j, idx, max_length_degrees_ecef,
                   max_length_degrees_enu, furthest_satellites, closest_distance>>

\* line 578: every directory is done
Main_Done ==
    /\ pc = "walk"
    /\ i = Len(args.directories)
    /\ pc' = "done"
    /\ UNCHANGED <<args, result, raised, locals, i, j, idx, max_length_degrees_ecef,
                   max_length_degrees_enu, furthest_satellites, closest_distance>>

NextMain ==
    \/ Main_Directory
    \/ Main_Aircraft
    \/ Main_Satellite
    \/ Main_SatelliteRaise
    \/ Main_Length
    \/ Main_LengthRaise
    \/ Main_Write
    \/ Main_Done

SpecMain == InitMain /\ [][NextMain]_vars

\* ------------------------------------------------------------ claims
\* calculate_apparent_length has returned a tuple of computed values
Returned == pc = "done" /\ result[6] # None

NoneResult == <<None, None, None, None, None, None>>

\* what the call returned, by name
RetEcef == result[1][1]

RetEnu == result[2][1]

RetFurthest == result[6][1]

RetSat1 == RetFurthest.sat1[1]

RetSat2 == RetFurthest.sat2[1]

\* all unordered pairs of targets, as (lower index, higher index)
AllPairs == {pr \in (0 .. NumSats - 1) \X (0 .. NumSats - 1) : pr[1] < pr[2]}

\* the observer-to-target vector of target k, in the Earth-fixed and ENU frames
ToTargetEcef(k) == VSub(Pos(k), Vec(r_ac_ecef))

ToTargetEnu(k) == ecef2enu(ToTargetEcef(k), args.lat, args.lon)

IsZeroVec(v) == v[1][1] = 0 /\ v[2][1] = 0 /\ v[3][1] = 0

\* the angle between two non-zero vectors
AngleBetween(a, b) ==
    AcosDeg(SDiv(SRat(dot_product(a, b)), SMul(magnitude(a), magnitude(b))))

\* the pairs that subtend an angle at the observer: neither target is at the
\* observer's own position
AnglePairs == {pr \in AllPairs : ~IsZeroVec(ToTargetEcef(pr[1]))
                                  /\ ~IsZeroVec(ToTargetEcef(pr[2]))}

PairAnglesEcef ==
    {AngleBetween(ToTargetEcef(pr[1]), ToTargetEcef(pr[2])) : pr \in AnglePairs}

PairAnglesEnu ==
    {AngleBetween(ToTargetEnu(pr[1]), ToTargetEnu(pr[2])) : pr \in AnglePairs}

IsMaxOf(a, S) == a \in S /\ \A b \in S : ~AngleLt(a, b)

\* C1: with fewer than two targets the call does not raise and returns None
\* for every derived quantity.  (Stated as claimed; the code raises a
\* TypeError for a list of exactly one target.)
C1_FewerThanTwoGivesNone ==
    NumSats < 2 => /\ raised = ""
                   /\ pc = "done" => result = NoneResult

\* C2: with two or more targets the call does not raise and every returned
\* value is computed (not None), also when all targets share one position or
\* a target is at the observer.  (Stated as claimed; the code raises a
\* TypeError when all targets share one position.)
C2_TwoOrMoreGivesValues ==
    NumSats >= 2 => /\ raised = ""
                    /\ pc = "done" => \A k \in 1 .. 6 : result[k] # None

\* C3 as claimed: each returned angle is the maximum over ALL unordered pairs
\* of the angle the pair subtends at the observer: every pair subtends an
\* angle, and the value returned is the largest of them.
C3_MaxOverAllPairs ==
    Returned => /\ AnglePairs = AllPairs
                /\ IsMaxOf(RetEcef, PairAnglesEcef)
                /\ IsMaxOf(RetEnu, PairAnglesEnu)

\* C3 amended: each returned angle is the maximum, over the unordered pairs
\* in which neither target is at the observer's position, of the angle the
\* pair subtends at the observer in that frame, and 0 degrees when there is no
\* such pair.
C3_MaxOverAnglePairs ==
    Returned => /\ IF AnglePairs = {} THEN RetEcef = Deg0
                   ELSE IsMaxOf(RetEcef, PairAnglesEcef)
                /\ IF AnglePairs = {} THEN RetEnu = Deg0
                   ELSE IsMaxOf(RetEnu, PairAnglesEnu)

\* C3 witness: three targets, one of them at the observer, so that one pair
\* subtends an angle larger than 0 and two pairs subtend none
C3_Witness ==
    /\ Returned
    /\ NumSats = 3
    /\ Cardinality(AnglePairs) = 1
    /\ RetEcef # Deg0

PairDist(pr) == distance(Pos(pr[1]), Pos(pr[2]))

\* (a, b) comes before (c, d) in the order the loops visit the pairs
PairBefore(p1, p2) == p1[1] < p2[1] \/ (p1[1] = p2[1] /\ p1[2] < p2[2])

\* C4: the reported pair has the maximum distance among all pairs and, among
\* the pairs at that distance, is the one the loops visit first.
C4_FirstFurthestPair ==
    Returned =>
        /\ <<RetSat1, RetSat2>> \in AllPairs
        /\ RetFurthest.distance = PairDist(<<RetSat1, RetSat2>>)
        /\ \A pr \in AllPairs :
               /\ ~SLt(RetFurthest.distance, PairDist(pr))
               /\ PairDist(pr) = RetFurthest.distance
                      => ~PairBefore(pr, <<RetSat1, RetSat2>>)

\* C4 witness: another pair ties with the reported one
C4_Witness ==
    /\ Returned
    /\ \E pr \in AllPairs : /\ pr # <<RetSat1, RetSat2>>
                            /\ PairDist(pr) = RetFurthest.distance

\* the midpoint of the reported pair
RetMidpoint ==
    <<RDiv(RAdd(Pos(RetSat1)[1], Pos(RetSat2)[1]), RInt(2)),
      RDiv(RAdd(Pos(RetSat1)[2], Pos(RetSat2)[2]), RInt(2)),
      RDiv(RAdd(Pos(RetSat1)[3], Pos(RetSat2)[3]), RInt(2))>>

DistToMid(k) == distance(Pos(k), RetMidpoint)

\* C5: midpoint_sat is the lowest index among the targets (the pair included)
\* whose position is nearest the midpoint of the furthest pair.
C5_MidpointSatNearest ==
    Returned =>
        LET m == RetFurthest.midpoint_sat
        IN  /\ m \in 0 .. NumSats - 1
            /\ RetFurthest.midpoint = Some(RetMidpoint)
            /\ \A k \in 0 .. NumSats - 1 :
                   /\ ~SLt(DistToMid(k), DistToMid(m))
                   /\ DistToMid(k) = DistToMid(m) => m <= k

\* C5 witness: the nearest target is not one of the pair and has the highest
\* index, and (other runs) two targets are equally near
C5_Witness ==
    /\ Returned
    /\ NumSats = 3
    /\ RetFurthest.midpoint_sat = 2
    /\ RetSat1 = 0
    /\ RetSat2 = 1

\* C6: two targets at the same distance from the observer that subtend a
\* right angle there give 90 degrees in both frames, are the furthest pair,
\* and one of them is the midpoint satellite.
RightAnglePair ==
    /\ NumSats = 2
    /\ ~IsZeroVec(ToTargetEcef(0))
    /\ magnitude(ToTargetEcef(0)) = magnitude(ToTargetEcef(1))
    /\ dot_product(ToTargetEcef(0), ToTargetEcef(1)) = Zero

C6_RightAngleCase ==
    (pc \in {"done", "raised"} /\ RightAnglePair) =>
        /\ Returned
        /\ RetEcef = Deg90
        /\ RetEnu = Deg90
        /\ RetSat1 = 0
        /\ RetSat2 = 1
        /\ RetFurthest.midpoint_sat \in {0, 1}

C6_Witness == Returned /\ RightAnglePair /\ args.lat = Ang(0, 1)

\* a difference of roots sqrt(hi) - sqrt(lo) and a root are >= 0
DiffNonNeg(x) == ~RLt(x.hi, x.lo) /\ ~RLt(x.lo, Zero)

RootNonNeg(x) == ~RLt(x.ssq, Zero)

\* C7: the three distances come from the furthest pair: |d(observer, sat1) -
\* d(observer, sat2)|, d(sat1, midpoint target), d(sat2, midpoint target), and
\* none is negative.
C7_DistancesFromPair ==
    Returned =>
        LET m == RetFurthest.midpoint_sat
            d1 == distance(Vec(r_ac_ecef), Pos(RetSat1))
            d2 == distance(Vec(r_ac_ecef), Pos(RetSat2))
        IN  /\ result[3][1] = (IF SLt(d1, d2) THEN [hi |-> d2.ssq, lo |-> d1.ssq]
                                              ELSE [hi |-> d1.ssq, lo |-> d2.ssq])
            /\ result[4][1] = distance(Pos(RetSat1), Pos(m))
            /\ result[5][1] = distance(Pos(RetSat2), Pos(m))
            /\ DiffNonNeg(result[3][1])
            /\ RootNonNeg(result[4][1])
            /\ RootNonNeg(result[5][1])
            /\ \A pr \in AllPairs : ~SLt(PairDist(<<RetSat1, RetSat2>>), PairDist(pr))

\* C7 witness: sat1 is nearer the observer than sat2, and the midpoint target
\* is a third target
C7_Witness ==
    /\ Returned
    /\ SLt(distance(Vec(r_ac_ecef), Pos(RetSat1)),
           distance(Vec(r_ac_ecef), Pos(RetSat2)))
    /\ RetFurthest.midpoint_sat \notin {RetSat1, RetSat2}

\* ------------------------------------------------ claims: twoecef2razel
RetRho == result[1]

RetAz == result[2]

RetElDeg == result[3]

\* elevations of 90, 0 and -90 degrees
El90 == AsinDeg(SRat(One))

El0 == AsinDeg(SRat(Zero))

ElNeg90 == AsinDeg(SRat(RInt(-1)))

\* 100 units
Range100 == Sqrt(RInt(100 * 100))

\* observer (6378, 0, 0) km, latitude 0, longitude 0, and the target at the
\* given place
RazelCase(target) ==
    /\ pc = "done"
    /\ args.units_per_km = 1
    /\ args.r1ecef = <<6378, 0, 0>>
    /\ args.r2ecef = target
    /\ args.lat = Ang(0, 0)
    /\ args.lon = Ang(0, 0)

\* the square of the horizontal magnitude of the relative position in SEZ
Horiz2 ==
    RAdd(RMul(locals.rhosez[1], locals.rhosez[1]),
         RMul(locals.rhosez[2], locals.rhosez[2]))

\* the horizontal magnitude is below 1e-8 km: below 10 units when a unit is
\* 1e-9 km; when a unit is a km, every non-zero length of the model is far
\* above 1e-8
BelowSmall ==
    IF args.units_per_km = 1 THEN Horiz2 = Zero ELSE RLt(Horiz2, RInt(10 * 10))

AzFromVelocity == Atan2Deg(locals.drhosez[2], RNeg(locals.drhosez[1]))

AzFromPosition == Atan2Deg(locals.rhosez[2], RNeg(locals.rhosez[1]))

\* C8 as claimed: observer (6378,0,0), target (6378,0,100), latitude 0,
\* longitude 0 give elevation 90 degrees and range 100 km, on the
\* velocity-derived azimuth branch (horizontal separation below 1e-8 km).
C8_ZenithAsClaimed ==
    RazelCase(<<6378, 0, 100>>) =>
        /\ RetElDeg = El90
        /\ RetRho = Range100
        /\ BelowSmall
        /\ RetAz = AzFromVelocity

\* C8 amended: that target is 100 km due north on the horizon: range 100 km,
\* elevation 0, azimuth 0 from the position (horizontal separation 100 km).
\* The target overhead is (6478,0,0): elevation 90, range 100 km, azimuth from
\* the velocity.
C8_NorthThenZenith ==
    /\ RazelCase(<<6378, 0, 100>>) =>
           /\ RetElDeg = El0
           /\ RetRho = Range100
           /\ ~BelowSmall
           /\ Horiz2 = RInt(100 * 100)
           /\ RetAz = [atan2 |-> <<0, 1>>]
    /\ RazelCase(<<6478, 0, 0>>) =>
           /\ RetElDeg = El90
           /\ RetRho = Range100
           /\ BelowSmall
           /\ RetAz = AzFromVelocity

C8_Witness == RazelCase(<<6378, 0, 100>>) /\ args.v2ecef = <<1, 1, 0>>

\* C9 as claimed: horizontal magnitude below 1e-8 gives elevation exactly
\* +90 or -90, by the sign of the vertical component, and the azimuth of the
\* relative velocity; otherwise arcsin(vertical / magnitude) and the azimuth
\* of the relative position.  For every input.
C9_SingularityAsClaimed ==
    pc = "done" =>
        IF BelowSmall
        THEN /\ RetElDeg \in {El90, ElNeg90}
             /\ RetElDeg = El90 <=> RSgn(locals.rhosez[3]) > 0
             /\ RetAz = AzFromVelocity
        ELSE /\ RetElDeg = AsinDeg(SDiv(SRat(locals.rhosez[3]), magnitude(locals.rhosez)))
             /\ RetAz = AzFromPosition

\* C9 amended: below 1e-8 the elevation is sign(vertical) * 90 degrees: +90,
\* -90, or 0 when the vertical component is exactly zero (as for observer and
\* target at one position); the rest as claimed.
C9_SingularityRule ==
    pc = "done" =>
        IF BelowSmall
        THEN /\ RSgn(locals.rhosez[3]) > 0 => RetElDeg = El90
             /\ RSgn(locals.rhosez[3]) < 0 => RetElDeg = ElNeg90
             /\ RSgn(locals.rhosez[3]) = 0 => RetElDeg = El0
             /\ RetAz = AzFromVelocity
        ELSE /\ RetElDeg = AsinDeg(SDiv(SRat(locals.rhosez[3]), magnitude(locals.rhosez)))
             /\ RetAz = AzFromPosition

\* C9 witness: a horizontal magnitude that is not zero and below 1e-8, with a
\* velocity whose azimuth is not the position's
C9_Witness ==
    /\ pc = "done"
    /\ BelowSmall
    /\ Horiz2 # Zero
    /\ RetElDeg = ElNeg90
    /\ AzFromVelocity # AzFromPosition

\* ------------------------------------------------ claims: rot.py
\* C10: a rotation by t followed by the same rotation by -t returns the
\* vector the first was given (rot1, rot2 and rot3, in exact arithmetic).
C10_RoundTrip ==
    pc = "rot" =>
        \A n \in 1 .. Len(locals.calls) - 1 :
            (/\ locals.calls[n + 1][1] = locals.calls[n][1]
             /\ locals.calls[n + 1][2] = AngNeg(locals.calls[n][2]))
                => locals.trail[n + 2] = locals.trail[n]

\* C10 witness: a round trip through an angle that is no multiple of 90
\* degrees, which moved the vector on the way
C10_Witness ==
    /\ pc = "rot"
    /\ Len(locals.calls) = 2
    /\ locals.calls[1][2].p # 0
    /\ locals.calls[2][1] = locals.calls[1][1]
    /\ locals.calls[2][2] = AngNeg(locals.calls[1][2])
    /\ locals.trail[2] # locals.trail[1]

\* ------------------------------------------------ claims: cockpitview.py
\* what each function returned to the caller
ViewRazel == locals.razel[1]

ViewEnu == locals.enu[1]

ViewAer == locals.aer[1]

\* both paths have been taken
BothPaths == locals.razel # None /\ locals.enu # None /\ locals.aer # None

\* the value of an azimuth: its direction <<east, north>> and the whole turns
\* added to the angle of that direction
AzValue(a) == <<a.atan2, IF "turn" \in DOMAIN a THEN a.turn ELSE 0>>

\* 1e-3 km in the units of the call
ViewZeroBelow == RMul(<<1, 1000>>, RInt(args.units_per_km))

\* no ENU component is lost to the zeroing of twoecef2aer: each is 0 or at
\* least 1e-3 km in magnitude
NothingZeroed ==
    \A k \in 1 .. 3 : ViewEnu[k] = Zero \/ ~RLt(RAbs(ViewEnu[k]), ViewZeroBelow)

HorizNonZero == ViewEnu[1] # Zero \/ ViewEnu[2] # Zero

SezIsEnu == ViewRazel.rhosez = <<RNeg(ViewEnu[2]), ViewEnu[1], ViewEnu[3]>>

\* C11 as claimed: for every latitude, longitude, observer and target the SEZ
\* vector is (-north, east, up) of the ENU vector and the two paths return
\* the same azimuth and the same elevation.  (In the inputs of SpecView two
\* angles that are not equal are more than 1e-6 degrees apart.)
C11_PathsAgreeAsClaimed ==
    BothPaths =>
        /\ SezIsEnu
        /\ AzValue(ViewRazel.ret[2]) = AzValue(ViewAer[2])
        /\ ViewRazel.ret[3] = ViewAer[3]

\* C11 amended: the SEZ vector is (-north, east, up) of the ENU vector for
\* every input.  When no ENU component is non-zero and below 1e-3 km, the
\* elevations are equal, and the azimuths are equal modulo 360 degrees if the
\* target is not exactly above or below the observer: twoecef2aer returns the
\* azimuth of twoecef2razel when that is >= 0 and 360 degrees more when it is
\* negative.  Exactly above or below, twoecef2aer returns azimuth 0.
C11_PathsAgreeModTurn ==
    BothPaths =>
        /\ SezIsEnu
        /\ NothingZeroed =>
               /\ ViewRazel.ret[3] = ViewAer[3]
               /\ HorizNonZero =>
                      AzValue(ViewAer[2]) =
                          <<ViewRazel.ret[2].atan2,
                            IF ViewRazel.ret[2].atan2[1] < 0 THEN 1 ELSE 0>>
               /\ ~HorizNonZero => AzValue(ViewAer[2]) = <<(<<0, 1>>), 0>>

\* C11 witness: a target west of north at latitude Theta0, seen from both
\* paths, its elevation not 0
C11_Witness ==
    /\ BothPaths
    /\ NothingZeroed
    /\ args.lat = Ang(0, 1)
    /\ args.lon = Ang(-1, 1)
    /\ ViewRazel.ret[2].atan2[1] < 0
    /\ ViewRazel.ret[2].atan2[2] > 0
    /\ ViewAer[2].turn = 1
    /\ ViewEnu[3] # Zero

\* the observer's velocity in ENU, and what the heading call returned
ViewVelEnu == ecef2enu(Vec(args.v1ecef), args.lat, args.lon)

ViewHeading == locals.heading[1]

\* headings of 0, 90, 180 and -90 degrees (clockwise from north)
HeadingNorth == [atan2 |-> <<0, 1>>]

HeadingEast == [atan2 |-> <<1, 0>>]

HeadingSouth == [atan2 |-> <<0, -1>>]

HeadingWest == [atan2 |-> <<-1, 0>>]

\* C12: the heading is the clockwise-from-north angle of the velocity's ENU
\* horizontal components (east, north): 0 degrees for a velocity due north,
\* 90 due east, 180 due south and -90 (not 270) due west, at every latitude
\* and longitude.
C12_HeadingCardinal ==
    locals.heading # None =>
        LET ve == ViewVelEnu[1]
            vn == ViewVelEnu[2]
            he == RInt(ViewHeading.atan2[1])
            hn == RInt(ViewHeading.atan2[2])
        IN  /\ (ve # Zero \/ vn # Zero) =>
                   /\ RMul(he, vn) = RMul(hn, ve)
                   /\ RSgn(he) = RSgn(ve)
                   /\ RSgn(hn) = RSgn(vn)
            /\ (ve = Zero /\ RSgn(vn) > 0) => ViewHeading = HeadingNorth
            /\ (RSgn(ve) > 0 /\ vn = Zero) => ViewHeading = HeadingEast
            /\ (ve = Zero /\ RSgn(vn) < 0) => ViewHeading = HeadingSouth
            /\ (RSgn(ve) < 0 /\ vn = Zero) => ViewHeading = HeadingWest

\* C12 witness: (3, 0, -4) is due south at latitude Theta0, longitude 0, and
\* not along an axis of the Earth-fixed frame
C12_Witness ==
    /\ locals.heading # None
    /\ args.lat = Ang(0, 1)
    /\ args.lon = Ang(0, 0)
    /\ args.v1ecef = <<3, 0, -4>>
    /\ ViewVelEnu = <<Zero, RInt(-5), Zero>>
    /\ ViewHeading = HeadingSouth

ViewCockpit == locals.cockpit[1]

\* the target's horizontal displacement (east, north) along the horizontal
\* velocity, and across it (positive to the right of the direction of travel)
AlongTravel ==
    RAdd(RMul(ViewEnu[1], ViewVelEnu[1]), RMul(ViewEnu[2], ViewVelEnu[2]))

RightOfTravel ==
    RSub(RMul(ViewEnu[1], ViewVelEnu[2]), RMul(ViewEnu[2], ViewVelEnu[1]))

HorizVelNonZero == ViewVelEnu[1] # Zero \/ ViewVelEnu[2] # Zero

\* look angles of 0 and +90 degrees
LookAhead == [atan2 |-> <<0, 1>>]

LookRight == [atan2 |-> <<1, 0>>]

\* C13: with a non-zero horizontal velocity, a target whose horizontal
\* displacement is along the direction of travel has look angle 0 whatever
\* the heading, and one displaced 90 degrees clockwise from it has +90.
C13_LookIsHeadingRelative ==
    (locals.cockpit # None /\ HorizVelNonZero) =>
        /\ (RightOfTravel = Zero /\ RSgn(AlongTravel) > 0)
               => ViewCockpit[2] = LookAhead
        /\ (AlongTravel = Zero /\ RSgn(RightOfTravel) > 0)
               => ViewCockpit[2] = LookRight

\* C13 witness: heading north-east (45 degrees), target to the south-east
C13_Witness ==
    /\ locals.cockpit # None
    /\ ViewHeading = [atan2 |-> <<1, 1>>]
    /\ ViewEnu = <<RInt(4), RInt(-4), Zero>>
    /\ ViewCockpit[2] = LookRight

\* ------------------------------------ claims: calculate_sun_grazing_angle
\* the sun and the observer as the call saw them in the orbital basis
SunNTW == locals.position_sun_NTW

AircraftNTW == locals.position_aircraft_NTW

\* the cosine of the angle between them
CosSunAircraft ==
    SDiv(SRat(dot_product_NTW(SunNTW, AircraftNTW)),
         SMul(magnitude_NTW(SunNTW), magnitude_NTW(AircraftNTW)))

\* the two vectors are parallel: their components, each pair over one root,
\* are in proportion
ParallelNTW ==
    \A k, m \in 1 .. 3 :
        RMul(SunNTW[k].num, AircraftNTW[m].num) = RMul(SunNTW[m].num, AircraftNTW[k].num)

\* they project to the same direction, or to antipodal directions
SameDirectionNTW == ParallelNTW /\ RSgn(dot_product_NTW(SunNTW, AircraftNTW)) > 0

AntipodalNTW == ParallelNTW /\ RSgn(dot_product_NTW(SunNTW, AircraftNTW)) < 0

\* grazing angles of 90 and 0 degrees: the half supplements of 0 and 180
Graze90 == HalfSupplement(Deg0)

Graze0 == HalfSupplement(Deg180)

\* C14: a call that returns gives (180 - angle) / 2 for the angle between
\* the sun and observer positions expressed in the body's orbital basis: 90
\* degrees when they have the same direction there, 0 when they are
\* antipodal, and always within [0, 90] (the angle is within [0, 180]).
C14_GrazeHalfSupplement ==
    (pc = "done") =>
        /\ result = HalfSupplement(AcosDeg(CosSunAircraft))
        /\ SameDirectionNTW => result = Graze90
        /\ AntipodalNTW => result = Graze0
        /\ ~SLt(result.half_supplement_of.acos, SRat(RInt(-1)))
        /\ ~SLt(SRat(One), result.half_supplement_of.acos)

\* C14 witness: the sun at twice the observer's position, seen from a body
\* whose orbital basis is not along the Earth-fixed axes
C14_Witness ==
    /\ pc = "done"
    /\ args.r_ac_ecef = <<1, 2, 2>>
    /\ args.r_sun_ecef = <<2, 4, 4>>
    /\ args.r_satellite = <<2, 1, 3>>
    /\ args.v_satellite = <<0, 1, 3>>
    /\ SameDirectionNTW
    /\ result = Graze90

\* the rows of the matrix the call built
NtwRow(k) == locals.ecef_to_ntw[k]

\* the square of the length of a row, and whether two rows are orthogonal
RowLength2(k) == RDiv(dot_product(NtwRow(k).v, NtwRow(k).v), NtwRow(k).d2)

RowsOrthogonal(k, m) == dot_product(NtwRow(k).v, NtwRow(m).v) = Zero

\* C15: whenever r x v is not zero, the three rows of ecef_to_ntw_matrix
\* (normalized r x v, normalized v, and the cross product of the second with
\* the first) are unit vectors orthogonal to one another; the third row is
\* not renormalized in the code.
C15_NtwOrthonormal ==
    locals # <<>> =>
        /\ \A k \in 1 .. 3 : RowLength2(k) = One
        /\ \A k, m \in 1 .. 3 : k # m => RowsOrthogonal(k, m)
        /\ NtwRow(1).v = cross_product(Vec(args.r_satellite), Vec(args.v_satellite))
        /\ NtwRow(2).v = Vec(args.v_satellite)
        /\ NtwRow(3).v = cross_product(NtwRow(2).v, NtwRow(1).v)
        /\ NtwRow(3).d2 = RMul(NtwRow(2).d2, NtwRow(1).d2)

\* C15 witness: position and velocity neither orthogonal nor along the axes
C15_Witness ==
    /\ locals # <<>>
    /\ args.r_satellite = <<2, 1, 3>>
    /\ args.v_satellite = <<0, 1, 3>>
    /\ NtwRow(3).v = <<RInt(20), Zero, Zero>>

\* C16: calculate_sun_grazing_angle never raises: body position parallel to
\* its velocity, zero body velocity and a sun or observer position of zero
\* length all give a numeric result.  (Stated as claimed; the code ends in
\* a ZeroDivisionError in each of these cases.)
C16_GrazeNeverRaises ==
    /\ raised = ""
    /\ pc # "calculate_sun_grazing_angle" => pc = "done"

\* ------------------------------------------- claims: the arccosine calls
\* a surd within [-1, 1]
InUnitInterval(c) == ~SLt(c, SRat(RInt(-1))) /\ ~SLt(SRat(One), c)

\* C17: at each of the three call sites the value handed to the arccosine
\* lies within [-1, 1]: it is the quotient as computed when that lies within
\* [-1, 1], 1 when the quotient overshoots 1 and -1 when it undershoots -1.
C17_AcosArgumentClamped ==
    pc = "done" =>
        /\ InUnitInterval(locals.acos_argument)
        /\ InUnitInterval(locals.cos_theta) => locals.acos_argument = locals.cos_theta
        /\ SLt(SRat(One), locals.cos_theta) => locals.acos_argument = SRat(One)
        /\ SLt(locals.cos_theta, SRat(RInt(-1)))
               => locals.acos_argument = SRat(RInt(-1))

\* C17 witness: parallel vectors in the ENU branch whose computed cosine
\* overshoots 1
C17_Witness ==
    /\ pc = "done"
    /\ locals.site = "enu"
    /\ args.A = <<1, 2, 2>>
    /\ args.B = <<2, 4, 4>>
    /\ SLt(SRat(One), locals.cos_theta)
    /\ result = Deg0

\* ------------------------------------------- claims: the longitude wrap
\* pi (line 104) in the hundredths of a degree of AngVal
Pi100 == 18000

\* C18: twoecef2razel wraps the longitude once: 2 pi is added to a longitude
\* below -pi, subtracted from one above pi, and one within [-pi, pi] is left
\* alone; so a longitude within [-3 pi, 3 pi] ends within [-pi, pi] and one
\* further out ends outside [-pi, pi].
C18_LonWrappedOnce ==
    (pc = "done") =>
        LET before == AngVal(args.lon)
            after  == AngVal(locals.lon)
        IN  /\ before < -Pi100 => after = before + 2 * Pi100
            /\ before > Pi100 => after = before - 2 * Pi100
            /\ (-Pi100 <= before /\ before <= Pi100) => locals.lon = args.lon
            /\ (-3 * Pi100 <= before /\ before <= 3 * Pi100)
                   => (-Pi100 <= after /\ after <= Pi100)
            /\ (before < -3 * Pi100 \/ before > 3 * Pi100)
                   => (after < -Pi100 \/ after > Pi100)

\* C18 witness: 630 degrees, which one wrap leaves at 270
C18_Witness ==
    /\ pc = "done"
    /\ args.lon = Ang(7, 0)
    /\ locals.lon = Ang(3, 0)

\* ------------------------------------------- claims: calls in a row
CallLog == locals.log

C20_ArgumentsUnchanged == [][args' = args]_vars

\* C20 witness: calculate_apparent_length has returned for a list of two
\* distinct targets, after a rotation of one of them
C20_Witness ==
    /\ pc = "idle"
    /\ Len(CallLog) = 2
    /\ CallLog[1].fn = "rot1"
    /\ CallLog[2].fn = "calculate_apparent_length"
    /\ CallLog[2].ret.raised = ""
    /\ CallLog[2].given[1] = args.satellite_positions
    /\ satellite_positions[1].position # satellite_positions[2].position

\* ------------------------------------------------ claims: angle ranges
\* the angle of a direction <<y, x>>, in (-180, 180], is negative
NegativeAngle(dir) == dir[1] < 0

\* an azimuth a lies in [0, 360) degrees: the angle of its direction when
\* that is not negative, and one turn more when it is
InZeroTo360(a) ==
    /\ a.turn \in {0, 1}
    /\ a.turn = 1 <=> NegativeAngle(a.atan2)

\* an angle a is what the two-argument arctangent gave, in [-180, 180], with
\* no turn added
InPlusMinus180(a) == DOMAIN a = {"atan2"} /\ a.atan2 # <<0, 0>>

\* C21: the azimuth of twoecef2aer always lies in [0, 360) degrees; the
\* azimuth of twoecef2razel and the look angle of cockpitview always lie in
\* [-180, 180] degrees.
C21_WrapRanges ==
    /\ locals.aer # None => InZeroTo360(locals.aer[1][2])
    /\ locals.razel # None => InPlusMinus180(locals.razel[1][2])
    /\ locals.cockpit # None => InPlusMinus180(locals.cockpit[1][2])

\* ------------------------------------------------ claims: rotations
\* the square of the Euclidean norm of a vector of fractions
Norm2(v) == RAdd(RAdd(RMul(v[1], v[1]), RMul(v[2], v[2])), RMul(v[3], v[3]))

\* the two components off the axis
OffAxis(axis) == {1, 2, 3} \ {axis}

\* the part of v off the axis, dotted with the same part of w
OffAxisDot(axis, v, w) ==
    LET b == CHOOSE k \in OffAxis(axis) : \A m \in OffAxis(axis) : k <= m
        c == CHOOSE k \in OffAxis(axis) : \A m \in OffAxis(axis) : k >= m
    IN  RAdd(RMul(v[b], w[b]), RMul(v[c], w[c]))

\* C22: each rotation leaves the component along its own axis unchanged
\* (rot1 the first, rot2 the second, rot3 the third), turns the other two by
\* the angle (their part of the output makes the angle's cosine with their
\* part of the input and has its length), so the Euclidean norm is preserved;
\* a rotation by angle 0 is the identity.
C22_RotationKeepsAxisAndNorm ==
    pc = "rot" =>
        \A n \in 1 .. Len(locals.calls) :
            LET axis == locals.calls[n][1]
                xval == locals.calls[n][2]
                vec == locals.trail[n]
                outvec == locals.trail[n + 1]
            IN  /\ outvec[axis] = vec[axis]
                /\ OffAxisDot(axis, outvec, outvec) = OffAxisDot(axis, vec, vec)
                /\ OffAxisDot(axis, outvec, vec) =
                       RMul(Cos(xval), OffAxisDot(axis, vec, vec))
                /\ Norm2(outvec) = Norm2(vec)
                /\ xval = Ang(0, 0) => outvec = vec

\* C22 witness: rot1, rot2 and rot3 each by an angle that is no multiple of
\* 90 degrees on a vector with no zero component, which they change
C22_Witness ==
    /\ pc = "rot"
    /\ Len(locals.calls) = 2
    /\ args.vec = <<1, 2, 3>>
    /\ locals.calls[1] = <<1, Ang(0, 1)>>
    /\ locals.calls[2] = <<3, Ang(2, 1)>>
    /\ locals.trail[2] # locals.trail[1]
    /\ locals.trail[3] # locals.trail[2]
    /\ locals.trail[2][1] = RInt(1)

\* ------------------------------------------------ claims: twoecef2aer
\* the ENU component k with the noise floor applied: 0 when its magnitude is
\* below 1e-3 km
Floored(k) == IF RLt(RAbs(ViewEnu[k]), ViewZeroBelow) THEN Zero ELSE ViewEnu[k]

AllBelowFloor == \A k \in 1 .. 3 : RLt(RAbs(ViewEnu[k]), ViewZeroBelow)

\* C23: twoecef2aer zeroes every ENU component of magnitude below 1e-3 km
\* first; range, elevation and azimuth are those of the zeroed components, so
\* such a component adds nothing to the range; a target within 1e-3 km on all
\* three axes gives range 0, elevation 0 and azimuth 0.
C23_AerFromZeroedComponents ==
    (locals.enu # None /\ locals.aer # None) =>
        LET horiz2 == RAdd(RMul(Floored(1), Floored(1)), RMul(Floored(2), Floored(2)))
        IN  /\ ViewAer[1] = Sqrt(RAdd(horiz2, RMul(Floored(3), Floored(3))))
            /\ ViewAer[3] = Atan2RootDeg(Floored(3), Sqrt(horiz2))
            /\ ViewAer[2].atan2 = Atan2Deg(Floored(1), Floored(2)).atan2
            /\ AllBelowFloor =>
                   /\ ViewAer[1] = Sqrt(Zero)
                   /\ ViewAer[3] = El0
                   /\ AzValue(ViewAer[2]) = <<(<<0, 1>>), 0>>

\* C23 witness: one metre away, no component zero and each below 1e-3 km
C23_Witness ==
    /\ locals.enu # None
    /\ locals.aer # None
    /\ AllBelowFloor
    /\ \A k \in 1 .. 3 : ViewEnu[k] # Zero
    /\ ViewAer[1] = Sqrt(Zero)

\* ------------------------------------ claims: no horizontal velocity
\* C24: for a velocity whose ENU east and north components are both exactly
\* zero (no velocity, or a vertical one) calculate_heading_from_velocity
\* returns the two-argument arctangent of (0, 0), a number, and does not
\* raise; cockpitview called with such a velocity returns its three numbers
\* (the look angle is then the angle of the target's (east, north)) and does
\* not raise.
C24_NoHorizontalVelocity ==
    ~HorizVelNonZero =>
        /\ raised = ""
        /\ locals.heading # None => ViewHeading = Atan2Deg(Zero, Zero)
        /\ locals.cockpit # None =>
               /\ ViewCockpit[1] = magnitude(ViewEnu)
               /\ ViewCockpit[2] = Atan2Deg(ViewEnu[1], ViewEnu[2])
               /\ ViewCockpit[3] =
                      Atan2RootDeg(ViewEnu[3],
                                   Sqrt(RAdd(RMul(ViewEnu[1], ViewEnu[1]),
                                             RMul(ViewEnu[2], ViewEnu[2]))))

\* C24 witness: a velocity straight up (latitude 0, longitude 0) and a target
\* off to the north-west, after cockpitview has returned
C24_Witness ==
    /\ locals.cockpit # None
    /\ args.v1ecef = <<1, 0, 0>>
    /\ args.lat = Ang(0, 0)
    /\ args.lon = Ang(0, 0)
    /\ ViewVelEnu = <<Zero, Zero, RInt(1)>>
    /\ ViewHeading = [atan2 |-> <<0, 1>>]
    /\ RSgn(ViewEnu[1]) < 0
    /\ RSgn(ViewEnu[2]) > 0
    /\ raised = ""

\* ------------------------------------ claims: elevation and range
\* an elevation kept as [asin |-> s] lies in [-90, 90] degrees: s in [-1, 1]
ElevationInRange(el) == DOMAIN el = {"asin"} /\ InUnitInterval(el.asin)

\* a length kept as a root is >= 0
RangeNonNegative(rho) == RSgn(rho.ssq) >= 0

\* C25: the elevation returned by twoecef2razel, by twoecef2aer and by
\* cockpitview lies in [-90, 90] degrees and the range returned by each is
\* >= 0, for every input.
C25_ElevationAndRange ==
    /\ locals.razel # None =>
           /\ ElevationInRange(ViewRazel.ret[3])
           /\ RangeNonNegative(ViewRazel.ret[1])
    /\ locals.aer # None =>
           /\ ElevationInRange(ViewAer[3])
           /\ RangeNonNegative(ViewAer[1])
    /\ locals.cockpit # None =>
           /\ ElevationInRange(ViewCockpit[3])
           /\ RangeNonNegative(ViewCockpit[1])

\* C25 witness: a target 3 km straight below the observer, for which each of
\* the three returns the end of the interval, -90 degrees, and range 3 km
C25_Witness ==
    /\ locals.cockpit # None
    /\ args.units_per_km = 1
    /\ ViewEnu = <<Zero, Zero, RInt(-3)>>
    /\ ViewRazel.ret[3] = ElNeg90
    /\ ViewAer[3] = ElNeg90
    /\ ViewCockpit[3] = ElNeg90
    /\ ViewRazel.ret[1] = Sqrt(RInt(9))
    /\ ViewAer[1] = Sqrt(RInt(9))
    /\ ViewCockpit[1] = Sqrt(RInt(9))

\* ------------------------------------ claims: the furthest-pair record
\* C26: whenever calculate_apparent_length returns values, the record it
\* returns is consistent: sat1 and sat2 are indices of the target list with
\* sat1 < sat2, distance is the Euclidean distance between those two targets
\* and is > 0, midpoint is the component-wise mean of their positions, and
\* midpoint_sat is an index of the target list.
C26_FurthestRecordConsistent ==
    Returned =>
        /\ RetFurthest.sat1 # None
        /\ RetFurthest.sat2 # None
        /\ RetSat1 \in 0 .. NumSats - 1
        /\ RetSat2 \in 0 .. NumSats - 1
        /\ RetSat1 < RetSat2
        /\ RetFurthest.distance = distance(Pos(RetSat1), Pos(RetSat2))
        /\ SLt(Sqrt(Zero), RetFurthest.distance)
        /\ RetFurthest.midpoint = Some(RetMidpoint)
        /\ RetFurthest.midpoint_sat \in 0 .. NumSats - 1

\* C26 witness: three targets of which the last two are the furthest pair
\* and the first is at their midpoint
C26_Witness ==
    /\ Returned
    /\ NumSats = 3
    /\ RetSat1 = 1
    /\ RetSat2 = 2
    /\ RetFurthest.distance = Sqrt(RInt(8))
    /\ RetFurthest.midpoint = Some(<<RInt(1), RInt(1), Zero>>)
    /\ RetFurthest.midpoint_sat = 0

\* ------------------------------------ claims: cockpitview and the velocity
\* what cockpitview returns for the call's positions when the observer moves
\* with velocity v
CockpitWith(v) == cockpitview(args.r1ecef, v, args.r2ecef, args.lat, args.lon)

\* C27: the range cockpitview returns is the Euclidean distance between
\* observer and target in the Earth-fixed frame, and the elevation is that of
\* the ENU vector before the heading rotation; neither depends on the
\* observer's velocity.
C27_RangeAndElevationWithoutHeading ==
    locals.cockpit # None =>
        /\ ViewCockpit[1] = distance(Vec(args.r1ecef), Vec(args.r2ecef))
        /\ ViewCockpit[3] =
               Atan2RootDeg(ViewEnu[3],
                            Sqrt(RAdd(RMul(ViewEnu[1], ViewEnu[1]),
                                      RMul(ViewEnu[2], ViewEnu[2]))))
        /\ \A v \in ViewV1 :
               /\ CockpitWith(v)[1] = ViewCockpit[1]
               /\ CockpitWith(v)[3] = ViewCockpit[3]

\* C27 witness: heading north-east; a target with east, north and up all
\* non-zero; another velocity gives another look angle and nothing else
C27_Witness ==
    /\ locals.cockpit # None
    /\ ViewHeading = [atan2 |-> <<1, 1>>]
    /\ \A k \in 1 .. 3 : ViewEnu[k] # Zero
    /\ CockpitWith(<<0, -1, 0>>)[2] # ViewCockpit[2]
    /\ CockpitWith(<<0, -1, 0>>)[1] = ViewCockpit[1]
    /\ CockpitWith(<<0, -1, 0>>)[3] = ViewCockpit[3]

\* ------------------------------------ claims: what the grazing angle ignores
\* the cosine of the angle between the sun and observer positions as given,
\* in the Earth-fixed frame
CosSunAircraftEcef ==
    SDiv(SRat(dot_product(Vec(args.r_sun_ecef), Vec(args.r_ac_ecef))),
         SMul(magnitude(Vec(args.r_sun_ecef)), magnitude(Vec(args.r_ac_ecef))))

\* the call with another body and other velocities, and the same sun and
\* observer positions
GrazeWith(r_sat, v_sat, v_sun, v_ac) ==
    calculate_sun_grazing_angle(args.r_ac_ecef, v_ac, args.r_sun_ecef, v_sun,
                                r_sat, v_sat)

\* C28: the grazing angle returned does not depend on the body's position and
\* velocity (their cross product being non-zero) nor on the sun's and the
\* observer's velocities: it is the half supplement of the angle between the
\* sun and observer positions in the Earth-fixed frame, and a call that
\* differs only in those four arguments returns the same angle.
C28_GrazeIgnoresBodyAndVelocities ==
    pc = "done" =>
        /\ result = HalfSupplement(AcosDeg(CosSunAircraftEcef))
        /\ \A r_sat \in GrazeBodyPositions, v_sat \in GrazeBodyVelocities,
              v_sun \in GrazeVelocities, v_ac \in GrazeVelocities :
               ~NormalizeRaises(cross_product(Vec(r_sat), Vec(v_sat))) =>
                   /\ GrazeWith(r_sat, v_sat, v_sun, v_ac).raised = ""
                   /\ GrazeWith(r_sat, v_sat, v_sun, v_ac).ret = result

\* C28 witness: an angle that is none of 0, 90 and 180 degrees, from a body
\* whose orbital basis is not along the Earth-fixed axes; another body gives
\* another projection of the sun and the same angle
C28_Witness ==
    /\ pc = "done"
    /\ args.r_ac_ecef = <<1, 2, 2>>
    /\ args.r_sun_ecef = <<2, 0, 1>>
    /\ args.r_satellite = <<2, 1, 3>>
    /\ args.v_satellite = <<0, 1, 3>>
    /\ args.v_sun_ecef = <<1, 0, 0>>
    /\ result = HalfSupplement(AcosDeg([ssq |-> <<16, 45>>]))
    /\ GrazeWith(<<1, 0, 0>>, <<0, 1, 0>>, <<0, 0, 0>>, <<0, 0, 0>>).locals.position_sun_NTW
           # SunNTW

\* ------------------------------------ claims: the two maxima
\* C29: the two maxima calculate_apparent_length returns are equal,
\* max_length_degrees_ecef = max_length_degrees_enu, for every target list,
\* observer, latitude and longitude (in exact arithmetic): they are equal
\* after every pair of the loops, a pair being skipped in one frame exactly
\* when it is skipped in the other.
C29_MaximaEqual ==
    /\ pc \in {"scan", "mid", "ret", "raised"} =>
           max_length_degrees_ecef = max_length_degrees_enu
    /\ Returned => RetEcef = RetEnu
    /\ \A pr \in AllPairs :
           (IsZeroVec(ToTargetEcef(pr[1])) \/ IsZeroVec(ToTargetEcef(pr[2])))
               <=> (IsZeroVec(ToTargetEnu(pr[1])) \/ IsZeroVec(ToTargetEnu(pr[2])))

\* C29 witness: three targets seen from (1, 0, 1) at latitude Theta0 and
\* longitude Theta0 - 90 degrees, the maximum neither 0 nor 90 nor 180
\* degrees, and the ENU vectors not the Earth-fixed ones
C29_Witness ==
    /\ Returned
    /\ NumSats = 3
    /\ args.r_ac_ecef = <<1, 0, 1>>
    /\ args.lat = Ang(0, 1)
    /\ args.lon = Ang(-1, 1)
    /\ RetEcef \notin {Deg0, Deg90, Deg180}
    /\ RetEnu = RetEcef
    /\ \A k \in 0 .. 2 : ToTargetEnu(k) # ToTargetEcef(k)

\* ------------------------------------------------ claims: main
\* the satellite rows main has appended in the directory under way and those
\* it has written
SatelliteRows ==
    {locals.output_data[n] : n \in {m \in 1 .. Len(locals.output_data) :
                                        locals.output_data[m].row = "Satellite"}}
    \cup UNION {{result[f].output_data[n] :
                     n \in {m \in 1 .. Len(result[f].output_data) :
                                result[f].output_data[m].row = "Satellite"}} :
                f \in 1 .. Len(result)}

\* C30: over any sequence of directories the grazing angle in a satellite
\* row is computed from the sun position of the sun file of the row's own
\* directory: a directory without a sun file has no grazing angle computed
\* from the sun position of a directory processed before it, and main never
\* fails on an undefined sun position.
C30_SunOfSameDirectory ==
    /\ raised # "UnboundLocalError"
    /\ \A row \in SatelliteRows :
           /\ args.directories[row.subdir].sun # None
           /\ row.r_sun_ecef = args.directories[row.subdir].sun[1]

====
